---- MODULE Spec2Model ----
(***************************************************************************)
(* Session store (AuthContext), device registration client                *)
(* (NotificationChannelScreen and DeviceService), escalations feed         *)
(* (FeedbackScreen) and the list screens of the Superfan Club mobile app,  *)
(* as a state machine.  Every async handler is an invocation in `tasks`    *)
(* that advances one await at a time; AsyncStorage, the axios default      *)
(* header and the React state of each component are the variables.         *)
(***************************************************************************)
EXTENDS Integers, Sequences, FiniteSets, TLC

VARIABLES
    storage,     \* AsyncStorage: key -> stored value
    axiosAuth,   \* axios.defaults.headers.common['Authorization']
    auth,        \* AuthProvider state: user, loading
    server,      \* the backend as the client observes it
    channel,     \* NotificationChannelScreen state
    feed,        \* FeedbackScreen state
    lists,       \* GuestHistoryListScreen / EscalationsScreen / DashboardScreen state
    tasks,       \* in-flight invocations of async handlers
    last         \* observer's log: outcome of the invocation that finished last

vars == <<storage, axiosAuth, auth, server, channel, feed, lists, tasks, last>>

----------------------------------------------------------------------------
(* Bounds *)

MaxTasks == 2      \* handler invocations in flight at the same time
MaxSecrets == 2    \* registrations the backend answers (one fresh secret each)
MaxRatings == 3    \* ratings of an escalation whose average is taken
MaxEntries == 7    \* ratings of an escalation whose ratings are listed
MaxChars == 2      \* characters of a primary comment
MaxComments == 2   \* comments of an escalation
MaxRating == 500   \* the largest rating, in hundredths

----------------------------------------------------------------------------
(* Values *)

NULL == "null"
Keys == {"authToken", "deviceId", "deviceSecret", "deviceRegistration"}
Severities == {"low", "medium", "high"}
TaskIds == 1..MaxTasks

\* Device.osInternalBuildId || Device.modelId || 'unknown': never empty
HwDeviceId == "os-build-id"
\* response.data.id of POST /api/devices/register: the backend's choice
ServerIds == {HwDeviceId, "device-record-id"}
SecretNames == <<"secret-1", "secret-2", "secret-3", "secret-4">>
\* response.data.token || 'authenticated'
Tokens == {"token-1", "authenticated"}
UserData == "user-1"
\* response.data of GET /api/escalations/device; "[]" is the empty list
EscalationLists == {"[]", "[e1]", "[e1,e2]"}
\* response.data of GET /api/guests, and the mockGuests / mockEscalations literals
GuestLists == {"[]", "[g1]"}
mockGuests == "mockGuests"
mockEscalations == "mockEscalations"
\* response.data of GET RESTAURANT and GET RESTAURANT_STATS
Restaurants == {"restaurant-a", "restaurant-b"}
Stats == {"stats-a", "stats-b"}

NoRegistration == [id |-> NULL, deviceSecret |-> NULL, subscriptionSeverity |-> NULL]
NoCredentials == [deviceId |-> NULL, deviceSecret |-> NULL]

\* JSON.stringify / JSON.parse of a DeviceRegistration object
JSONstringify(obj) == [json |-> obj]
JSONparse(text) == text.json
NoItem == [json |-> NoRegistration]
EmptyStorage == [k \in Keys |-> IF k = "deviceRegistration" THEN NoItem ELSE NULL]

\* bearer: the Authorization header a request of the invocation went out with
\* (axios adds axios.defaults.headers.common to every request that sets none)
IdleTask ==
    [op |-> "idle", pc |-> "idle", arg |-> NULL, resp |-> NULL,
     creds |-> NoCredentials, reg |-> NoRegistration, net |-> 0,
     bearer |-> NULL, alive |-> TRUE, pre |-> EmptyStorage]

NewTask(op, pc, arg) == [IdleTask EXCEPT !.op = op, !.pc = pc, !.arg = arg]

\* reg: the registration a successful registerDevice was answered with;
\* established: the token in storage is the one a login that returned true stored
NoOutcome ==
    [op |-> "none", result |-> NULL, error |-> NULL, alert |-> NULL, net |-> 0,
     reg |-> NoRegistration, established |-> FALSE]

Outcome(t, result, error, alert) ==
    [op |-> tasks[t].op, result |-> result, error |-> error, alert |-> alert,
     net |-> tasks[t].net, reg |-> NoRegistration, established |-> last.established]

Free(t) == tasks[t].op = "idle"
At(t, op, pc) == tasks[t].op = op /\ tasks[t].pc = pc
InFlight == {t \in TaskIds : ~Free(t)}
Running(op) == \E t \in TaskIds : tasks[t].op = op

\* a new invocation takes the lowest free slot
Spawn(task) ==
    /\ \E t \in TaskIds : Free(t)
    /\ LET t == CHOOSE s \in TaskIds : Free(s) /\ \A r \in TaskIds : Free(r) => s <= r
       IN tasks' = [tasks EXCEPT ![t] = task]

Goto(t, pc) == tasks' = [tasks EXCEPT ![t].pc = pc]

Finish(t, result, error, alert) ==
    /\ tasks' = [tasks EXCEPT ![t] = IdleTask]
    /\ last' = Outcome(t, result, error, alert)

----------------------------------------------------------------------------
(* Component state at mount (the useState initial values) *)

\* NotificationChannelScreen
InitialChannel ==
    [loading |-> TRUE, registering |-> FALSE,
     deviceRegistration |-> NoRegistration, selectedSeverity |-> "medium",
     permissionStatus |-> "unknown", mounted |-> FALSE]

\* FeedbackScreen
InitialFeed ==
    [feedbacks |-> "[]", loading |-> TRUE, refreshing |-> FALSE,
     deviceRegistered |-> FALSE, subscriptionSeverity |-> NULL, mounted |-> FALSE]

\* GuestHistoryListScreen, EscalationsScreen, DashboardScreen, SettingsScreen
InitialLists ==
    [guests |-> [data |-> "[]", loading |-> TRUE, refreshing |-> FALSE,
                 mounted |-> FALSE],
     escalations |-> [data |-> "[]", loading |-> TRUE, refreshing |-> FALSE,
                      mounted |-> FALSE],
     dashboard |-> [restaurant |-> NULL, stats |-> NULL, loading |-> TRUE,
                    refreshing |-> FALSE, mounted |-> FALSE],
     settings |-> [restaurant |-> NULL, loading |-> TRUE, mounted |-> FALSE]]

\* the authenticated navigator leaves the tree: its screens lose their state and
\* the invocations they started can no longer set it
Unmounted(ts) ==
    [t \in TaskIds |-> IF ts[t].op = "idle" THEN ts[t] ELSE [ts[t] EXCEPT !.alive = FALSE]]

----------------------------------------------------------------------------
(* AsyncStorage *)

getItem(key) == storage[key]
\* variant: the write is lost
setItem_lost(key, value) == storage' = storage
setItem(key, value) == storage' = [storage EXCEPT ![key] = value]
\* variant: every key is removed
removeItem_all(key) == storage' = EmptyStorage
\* variant: the key is kept
removeItem_kept(key) == storage' = storage
removeItem(key) ==
    storage' = [storage EXCEPT ![key] = IF key = "deviceRegistration" THEN NoItem ELSE NULL]
multiRemove(keys) ==
    storage' = [k \in Keys |->
                  IF k \in keys
                  THEN (IF k = "deviceRegistration" THEN NoItem ELSE NULL)
                  ELSE storage[k]]

----------------------------------------------------------------------------
(* Backend, as far as the client depends on it *)

\* a request that was issued with an Authorization header is accepted while the
\* session the token stands for is valid
BearerAccepted(bearer) == bearer # NULL /\ server.session

\* device-scoped endpoints accept the identifier/secret pair issued at registration
DeviceAccepted(deviceId, deviceSecret) ==
    /\ server.device.deviceSecret # NULL
    /\ deviceId = HwDeviceId
    /\ deviceSecret = server.device.deviceSecret

\* the backend ends a session on its own (expiry, revocation)
ServerExpiresSession ==
    /\ server.session
    /\ server' = [server EXCEPT !.session = FALSE]
    /\ UNCHANGED <<storage, axiosAuth, auth, channel, feed, lists, tasks, last>>

----------------------------------------------------------------------------
(* AuthProvider *)

\* checkAuthStatus: const token = await AsyncStorage.getItem('authToken')
checkAuthStatus_getItem(t) ==
    /\ At(t, "checkAuthStatus", "getItem")
    /\ LET token == getItem("authToken") IN
       IF token # NULL
       THEN /\ axiosAuth' = token
            /\ tasks' = [tasks EXCEPT ![t].pc = "verify", ![t].net = 1, ![t].bearer = token]
            /\ UNCHANGED <<auth, last>>
       ELSE /\ auth' = [auth EXCEPT !.loading = FALSE]
            /\ Finish(t, "ok", NULL, NULL)
            /\ UNCHANGED axiosAuth
    /\ UNCHANGED <<storage, server, channel, feed, lists>>

\* checkAuthStatus: await axios.get(USER) answered; setUser or fall into catch
checkAuthStatus_verify(t) ==
    /\ At(t, "checkAuthStatus", "verify")
    /\ \/ /\ BearerAccepted(tasks[t].bearer)
          /\ auth' = [user |-> UserData, loading |-> FALSE]
          /\ Finish(t, "ok", NULL, NULL)
       \/ /\ ~BearerAccepted(tasks[t].bearer)
          /\ tasks' = [tasks EXCEPT ![t].pc = "catch", ![t].resp = "rejected"]
          /\ UNCHANGED <<auth, last>>
       \/ /\ tasks' = [tasks EXCEPT ![t].pc = "catch", ![t].resp = "transport"]
          /\ UNCHANGED <<auth, last>>
    /\ UNCHANGED <<storage, axiosAuth, server, channel, feed, lists>>

\* checkAuthStatus: catch { await AsyncStorage.removeItem('authToken') } finally
checkAuthStatus_catch(t) ==
    /\ At(t, "checkAuthStatus", "catch")
    /\ \/ /\ removeItem("authToken")
          /\ last' = [Outcome(t, "fail", tasks[t].resp, NULL) EXCEPT !.established = FALSE]
       \/ /\ UNCHANGED storage         \* removeItem rejects
          /\ last' = Outcome(t, "fail", tasks[t].resp, NULL)
    /\ auth' = [auth EXCEPT !.loading = FALSE]
    /\ tasks' = [tasks EXCEPT ![t] = IdleTask]
    /\ UNCHANGED <<axiosAuth, server, channel, feed, lists>>

\* the login screen is shown when AppNavigator is neither loading nor authenticated
LoginScreenShown == ~auth.loading /\ auth.user = NULL

\* login: axios.post(LOGIN, {username, password}) is issued
login ==
    /\ LoginScreenShown
    /\ ~Running("login")
    /\ Spawn([NewTask("login", "post", NULL) EXCEPT !.net = 1])
    /\ UNCHANGED <<storage, axiosAuth, auth, server, channel, feed, lists, last>>

\* login: the POST is answered
login_post(t) ==
    /\ At(t, "login", "post")
    /\ \/ \E token \in Tokens :        \* response.data.success
            /\ server' = [server EXCEPT !.session = TRUE]
            /\ tasks' = [tasks EXCEPT ![t].pc = "setItem", ![t].resp = token]
            /\ UNCHANGED last
       \/ /\ Finish(t, "false", "success-false", NULL)
          /\ UNCHANGED server
       \/ /\ Finish(t, "false", "transport", NULL)
          /\ UNCHANGED server
    /\ UNCHANGED <<storage, axiosAuth, auth, channel, feed, lists>>

\* login: await AsyncStorage.setItem('authToken', token); set the default header;
\* axios.get(USER) is issued
login_setItem(t) ==
    /\ At(t, "login", "setItem")
    /\ \/ /\ setItem("authToken", tasks[t].resp)
          /\ axiosAuth' = tasks[t].resp
          /\ tasks' = [tasks EXCEPT ![t].pc = "getUser", ![t].net = 2,
                                   ![t].bearer = tasks[t].resp]
          /\ last' = [last EXCEPT !.established = FALSE]
       \/ /\ Finish(t, "false", "storage", NULL)   \* setItem rejects
          /\ UNCHANGED <<storage, axiosAuth>>
    /\ UNCHANGED <<auth, server, channel, feed, lists>>

\* login: the GET of the user is answered
login_getUser(t) ==
    /\ At(t, "login", "getUser")
    /\ \/ /\ BearerAccepted(tasks[t].bearer)
          /\ auth' = [auth EXCEPT !.user = UserData]
          /\ tasks' = [tasks EXCEPT ![t] = IdleTask]
          /\ last' = [Outcome(t, "true", NULL, NULL) EXCEPT !.established = TRUE]
       \/ /\ Finish(t, "false", "transport", NULL)
          /\ UNCHANGED auth
       \/ /\ ~BearerAccepted(tasks[t].bearer)
          /\ Finish(t, "false", "rejected", NULL)
          /\ UNCHANGED auth
    /\ UNCHANGED <<storage, axiosAuth, server, channel, feed, lists>>

\* logout: axios.post(LOGOUT) is issued (SettingsScreen.handleLogout, 'Logout' pressed)
logout ==
    /\ auth.user # NULL
    /\ ~Running("logout")
    /\ Spawn([NewTask("logout", "post", NULL) EXCEPT !.net = 1])
    /\ UNCHANGED <<storage, axiosAuth, auth, server, channel, feed, lists, last>>

\* logout: the POST is answered or fails; either way control reaches finally
logout_post(t) ==
    /\ At(t, "logout", "post")
    /\ \/ /\ server' = [server EXCEPT !.session = FALSE]
          /\ tasks' = [tasks EXCEPT ![t].pc = "finally", ![t].resp = "ok"]
       \/ /\ tasks' = [tasks EXCEPT ![t].pc = "finally", ![t].resp = "transport"]
          /\ UNCHANGED server
    /\ UNCHANGED <<storage, axiosAuth, auth, channel, feed, lists, last>>

\* logout: finally { removeItem('authToken'); delete header; setUser(null) }
logout_finally(t) ==
    /\ At(t, "logout", "finally")
    /\ \/ /\ removeItem("authToken")
          /\ axiosAuth' = NULL
          /\ auth' = [auth EXCEPT !.user = NULL]
          /\ tasks' = Unmounted([tasks EXCEPT ![t] = IdleTask])
          /\ last' = [Outcome(t, "ok", NULL, NULL) EXCEPT !.established = FALSE]
          /\ channel' = InitialChannel
          /\ feed' = InitialFeed
          /\ lists' = InitialLists
       \/ /\ Finish(t, "throws", "storage", NULL)   \* removeItem rejects
          /\ UNCHANGED <<storage, axiosAuth, auth, channel, feed, lists>>
    /\ UNCHANGED server

----------------------------------------------------------------------------
(* NotificationChannelScreen: mount, initializeNotificationChannel *)

SetChannel(t, new) == channel' = IF tasks[t].alive THEN new ELSE channel

\* useEffect(() => { initializeNotificationChannel(); }, [])
NotificationChannelMount ==
    /\ auth.user # NULL
    /\ ~channel.mounted
    /\ Spawn(NewTask("initializeNotificationChannel", "getPermissions", NULL))
    /\ channel' = [InitialChannel EXCEPT !.mounted = TRUE]
    /\ UNCHANGED <<storage, axiosAuth, auth, server, feed, lists, last>>

\* the user navigates back: the screen leaves the stack, what it started goes on
NotificationChannelUnmount ==
    /\ channel.mounted
    /\ channel' = InitialChannel
    /\ tasks' = [t \in TaskIds |->
                   IF tasks[t].op \in {"initializeNotificationChannel", "registerDevice",
                                       "updateSubscription"}
                   THEN [tasks[t] EXCEPT !.alive = FALSE] ELSE tasks[t]]
    /\ UNCHANGED <<storage, axiosAuth, auth, server, feed, lists, last>>

\* initializeNotificationChannel: await Notifications.getPermissionsAsync()
initializeNotificationChannel_getPermissions(t) ==
    /\ At(t, "initializeNotificationChannel", "getPermissions")
    /\ \/ \E status \in {"granted", "denied"} :
            /\ SetChannel(t, [channel EXCEPT !.permissionStatus = status])
            /\ Goto(t, "getItem")
            /\ UNCHANGED last
       \/ /\ SetChannel(t, [channel EXCEPT !.loading = FALSE])
          /\ Finish(t, "fail", "permissions", NULL)
    /\ UNCHANGED <<storage, axiosAuth, auth, server, feed, lists>>

\* initializeNotificationChannel: await AsyncStorage.getItem('deviceRegistration')
initializeNotificationChannel_getItem(t) ==
    /\ At(t, "initializeNotificationChannel", "getItem")
    /\ LET storedRegistration == getItem("deviceRegistration") IN
       IF storedRegistration # NoItem
       THEN LET parsedRegistration == JSONparse(storedRegistration) IN
            SetChannel(t, [channel EXCEPT
                !.deviceRegistration = parsedRegistration,
                !.selectedSeverity = parsedRegistration.subscriptionSeverity,
                !.loading = FALSE])
       ELSE SetChannel(t, [channel EXCEPT !.loading = FALSE])
    /\ Finish(t, "ok", NULL, NULL)
    /\ UNCHANGED <<storage, axiosAuth, auth, server, feed, lists>>

\* the screen renders its body once loading is false
ChannelShown == channel.mounted /\ ~channel.loading


----------------------------------------------------------------------------
(* NotificationChannelScreen.registerDevice (SettingsScreen.registerDevice is the same) *)

\* variant: a failed registration is sent once more by itself
RegistrationFailed_retry(t, error) ==
    IF tasks[t].net = 1
    THEN /\ tasks' = [tasks EXCEPT ![t].pc = "post", ![t].net = 2]
         /\ UNCHANGED <<channel, last>>
    ELSE /\ SetChannel(t, [channel EXCEPT !.registering = FALSE])
         /\ Finish(t, "fail", error, "Registration Failed")

\* catch: Alert 'Registration Failed'; finally setRegistering(false)
RegistrationFailed(t, error) ==
    /\ SetChannel(t, [channel EXCEPT !.registering = FALSE])
    /\ Finish(t, "fail", error, "Registration Failed")

\* the Register button is rendered while !deviceRegistration and enabled while
\* !registering; the handler returns at once without a user
registerDevice ==
    /\ ChannelShown
    /\ channel.deviceRegistration = NoRegistration
    /\ ~channel.registering
    /\ IF auth.user = NULL
       THEN /\ last' = [NoOutcome EXCEPT !.op = "registerDevice", !.result = "fail",
                           !.error = "no user", !.alert = "Error",
                           !.established = last.established]
            /\ UNCHANGED <<channel, tasks>>
       ELSE /\ channel' = [channel EXCEPT !.registering = TRUE]
            /\ Spawn([NewTask("registerDevice",
                              IF channel.permissionStatus # "granted"
                              THEN "requestPermission" ELSE "getExpoPushToken",
                              channel.selectedSeverity)
                        EXCEPT !.pre = storage])
            /\ UNCHANGED last
    /\ UNCHANGED <<storage, axiosAuth, auth, server, feed, lists>>

\* requestNotificationPermission: granted, refused (alert) or throwing (logged)
registerDevice_requestPermission(t) ==
    /\ At(t, "registerDevice", "requestPermission")
    /\ \/ /\ SetChannel(t, [channel EXCEPT !.permissionStatus = "granted"])
          /\ Goto(t, "getExpoPushToken")
          /\ UNCHANGED last
       \/ /\ SetChannel(t, [channel EXCEPT !.permissionStatus = "denied",
                                              !.registering = FALSE])
          /\ Finish(t, "fail", "permission denied", "Permission Required")
       \/ /\ SetChannel(t, [channel EXCEPT !.registering = FALSE])
          /\ Finish(t, "fail", "permission request threw", NULL)
    /\ UNCHANGED <<storage, axiosAuth, auth, server, feed, lists>>

\* getExpoPushTokenAsync resolves and the POST to DEVICE_REGISTER is issued
registerDevice_getExpoPushToken(t) ==
    /\ At(t, "registerDevice", "getExpoPushToken")
    /\ \/ /\ tasks' = [tasks EXCEPT ![t].pc = "post", ![t].net = 1,
                                   ![t].bearer = axiosAuth,
                                   ![t].creds = [deviceId |-> HwDeviceId,
                                                 deviceSecret |-> NULL]]
          /\ UNCHANGED <<channel, last>>
       \/ RegistrationFailed(t, "push token")
    /\ UNCHANGED <<storage, axiosAuth, auth, server, feed, lists>>

\* the backend creates the device record and answers {id, deviceSecret,
\* subscriptionSeverity}, or the request fails
registerDevice_post(t) ==
    /\ At(t, "registerDevice", "post")
    /\ \/ /\ BearerAccepted(tasks[t].bearer)
          /\ server.issued < MaxSecrets
          /\ \E id \in ServerIds :
               LET data == [id |-> id,
                            deviceSecret |-> SecretNames[server.issued + 1],
                            subscriptionSeverity |-> tasks[t].arg]
               IN /\ server' = [server EXCEPT !.device = data,
                                              !.issued = server.issued + 1]
                  /\ tasks' = [tasks EXCEPT ![t].pc = "setItemRegistration",
                                           ![t].reg = data]
          /\ UNCHANGED <<channel, last>>
       \/ /\ RegistrationFailed(t, "request")
          /\ UNCHANGED server
    /\ UNCHANGED <<storage, axiosAuth, auth, feed, lists>>

\* await AsyncStorage.setItem('deviceRegistration', JSON.stringify(registration))
registerDevice_setItemRegistration(t) ==
    /\ At(t, "registerDevice", "setItemRegistration")
    /\ \/ /\ setItem("deviceRegistration", JSONstringify(tasks[t].reg))
          /\ Goto(t, "setItemDeviceId")
          /\ UNCHANGED <<channel, last>>
       \/ /\ RegistrationFailed(t, "storage")
          /\ UNCHANGED storage
    /\ UNCHANGED <<axiosAuth, auth, server, feed, lists>>

\* await AsyncStorage.setItem('deviceId', deviceId)
registerDevice_setItemDeviceId(t) ==
    /\ At(t, "registerDevice", "setItemDeviceId")
    /\ \/ /\ setItem("deviceId", tasks[t].creds.deviceId)
          /\ Goto(t, "setItemDeviceSecret")
          /\ UNCHANGED <<channel, last>>
       \/ /\ RegistrationFailed(t, "storage")
          /\ UNCHANGED storage
    /\ UNCHANGED <<axiosAuth, auth, server, feed, lists>>

\* await AsyncStorage.setItem('deviceSecret', registration.deviceSecret);
\* setDeviceRegistration(registration); Alert 'Device Registered'
registerDevice_setItemDeviceSecret(t) ==
    /\ At(t, "registerDevice", "setItemDeviceSecret")
    /\ \/ /\ setItem("deviceSecret", tasks[t].reg.deviceSecret)
          /\ SetChannel(t, [channel EXCEPT !.deviceRegistration = tasks[t].reg,
                                              !.registering = FALSE])
          /\ tasks' = [tasks EXCEPT ![t] = IdleTask]
          /\ last' = [Outcome(t, "success", NULL, "Device Registered")
                         EXCEPT !.reg = tasks[t].reg]
       \/ /\ RegistrationFailed(t, "storage")
          /\ UNCHANGED storage
    /\ UNCHANGED <<axiosAuth, auth, server, feed, lists>>

----------------------------------------------------------------------------
(* NotificationChannelScreen.updateSubscription (SettingsScreen's is the same) *)

UpdateFailed(t, error) == Finish(t, "fail", error, "Update Failed")

\* SeverityOption.onPress while registered: updateSubscription(option.level);
\* the options stay enabled while an update is in flight
updateSubscription(newSeverity) ==
    /\ ChannelShown
    /\ IF channel.deviceRegistration = NoRegistration
       THEN /\ last' = [NoOutcome EXCEPT !.op = "updateSubscription", !.result = "fail",
                           !.error = "Device not registered", !.alert = "Error",
                           !.established = last.established]
            /\ UNCHANGED tasks
       ELSE /\ Spawn([NewTask("updateSubscription", "getDeviceId", newSeverity)
                        EXCEPT !.reg = channel.deviceRegistration])
            /\ UNCHANGED last
    /\ UNCHANGED <<storage, axiosAuth, auth, server, channel, feed, lists>>

\* const deviceId = await AsyncStorage.getItem('deviceId')
updateSubscription_getDeviceId(t) ==
    /\ At(t, "updateSubscription", "getDeviceId")
    /\ tasks' = [tasks EXCEPT ![t].pc = "getDeviceSecret",
                             ![t].creds.deviceId = getItem("deviceId")]
    /\ UNCHANGED <<storage, axiosAuth, auth, server, channel, feed, lists, last>>

\* const deviceSecret = await AsyncStorage.getItem('deviceSecret'); without both,
\* alert and return; else the PATCH is issued with x-device-secret
updateSubscription_getDeviceSecret(t) ==
    /\ At(t, "updateSubscription", "getDeviceSecret")
    /\ LET deviceId == tasks[t].creds.deviceId
           deviceSecret == getItem("deviceSecret")
       IN IF deviceId = NULL \/ deviceSecret = NULL
          THEN /\ tasks' = [tasks EXCEPT ![t] = IdleTask]
               /\ last' = Outcome(t, "fail", "Device credentials not found", "Error")
          ELSE /\ tasks' = [tasks EXCEPT ![t].pc = "patch", ![t].net = 1,
                                        ![t].bearer = axiosAuth,
                                        ![t].creds.deviceSecret = deviceSecret]
               /\ UNCHANGED last
    /\ UNCHANGED <<storage, axiosAuth, auth, server, channel, feed, lists>>

\* the backend applies the new severity, or the request fails
DevicePatch(t) ==
    \/ /\ DeviceAccepted(tasks[t].creds.deviceId, tasks[t].creds.deviceSecret)
       /\ server' = [server EXCEPT !.device.subscriptionSeverity = tasks[t].arg]
       /\ tasks' = [tasks EXCEPT ![t].resp = "ok",
                      ![t].pc = IF tasks[t].op = "updateSubscription"
                                THEN "setItem" ELSE "getDeviceRegistration"]
       /\ UNCHANGED last
    \/ /\ IF tasks[t].op = "updateSubscription"
          THEN UpdateFailed(t, "request")
          ELSE Finish(t, "false", "request", NULL)
       /\ UNCHANGED server

updateSubscription_patch(t) ==
    /\ At(t, "updateSubscription", "patch")
    /\ DevicePatch(t)
    /\ UNCHANGED <<storage, axiosAuth, auth, channel, feed, lists>>

\* await AsyncStorage.setItem('deviceRegistration', {...deviceRegistration,
\* subscriptionSeverity: newSeverity}); set the state; Alert 'Subscription Updated'
updateSubscription_setItem(t) ==
    /\ At(t, "updateSubscription", "setItem")
    /\ LET updatedRegistration ==
               [tasks[t].reg EXCEPT !.subscriptionSeverity = tasks[t].arg]
       IN \/ /\ setItem("deviceRegistration", JSONstringify(updatedRegistration))
             /\ SetChannel(t, [channel EXCEPT
                    !.deviceRegistration = updatedRegistration,
                    !.selectedSeverity = tasks[t].arg])
             /\ Finish(t, "success", NULL, "Subscription Updated")
          \/ /\ UpdateFailed(t, "storage")
             /\ UNCHANGED <<storage, channel>>
    /\ UNCHANGED <<axiosAuth, auth, server, feed, lists>>

----------------------------------------------------------------------------
(* DeviceService *)

FetchOps == {"getDeviceFilteredEscalations", "fetchDeviceFilteredEscalations"}
CredentialOps == {"updateSubscriptionSeverity", "sendHeartbeat", "initializeAndFetch"}
                     \cup FetchOps

\* variant: the two values change places
getDeviceCredentials_swapped(deviceId, deviceSecret) ==
    IF deviceId = NULL \/ deviceSecret = NULL
    THEN NoCredentials
    ELSE [deviceId |-> deviceSecret, deviceSecret |-> deviceId]

\* getDeviceCredentials: null unless both keys hold a value
getDeviceCredentials(deviceId, deviceSecret) ==
    IF deviceId = NULL \/ deviceSecret = NULL
    THEN NoCredentials
    ELSE [deviceId |-> deviceId, deviceSecret |-> deviceSecret]

\* getDeviceRegistration: the parsed 'deviceRegistration' item, or null
getDeviceRegistration(store) ==
    IF store["deviceRegistration"] = NoItem
    THEN NoRegistration
    ELSE JSONparse(store["deviceRegistration"])

\* isDeviceRegistered: !!(registration && credentials)
isDeviceRegistered(store) ==
    /\ getDeviceRegistration(store) # NoRegistration
    /\ getDeviceCredentials(store["deviceId"], store["deviceSecret"]) # NoCredentials

\* getSubscriptionSeverity: registration?.subscriptionSeverity || null
getSubscriptionSeverity(store) == getDeviceRegistration(store).subscriptionSeverity

\* getDeviceCredentials: const deviceId = await AsyncStorage.getItem('deviceId')
getDeviceCredentials_deviceId(t) ==
    /\ tasks[t].op \in CredentialOps
    /\ tasks[t].pc = "getDeviceId"
    /\ tasks' = [tasks EXCEPT ![t].pc = "getDeviceSecret",
                             ![t].creds.deviceId = getItem("deviceId")]
    /\ UNCHANGED <<storage, axiosAuth, auth, server, channel, feed, lists, last>>

\* updateSubscriptionSeverity(newSeverity) is called
updateSubscriptionSeverity(newSeverity) ==
    /\ Spawn(NewTask("updateSubscriptionSeverity", "getDeviceId", newSeverity))
    /\ UNCHANGED <<storage, axiosAuth, auth, server, channel, feed, lists, last>>

\* variant: the PATCH is issued whatever the credentials read
updateSubscriptionSeverity_getDeviceSecret_unguarded(t) ==
    /\ At(t, "updateSubscriptionSeverity", "getDeviceSecret")
    /\ tasks' = [tasks EXCEPT ![t].pc = "patch", ![t].net = 1,
                             ![t].bearer = axiosAuth,
                             ![t].creds.deviceSecret = getItem("deviceSecret")]
    /\ UNCHANGED <<storage, axiosAuth, auth, server, channel, feed, lists, last>>

\* credentials read; without them throw 'Device not registered' (caught: false);
\* else the PATCH is issued with x-device-secret
updateSubscriptionSeverity_getDeviceSecret(t) ==
    /\ At(t, "updateSubscriptionSeverity", "getDeviceSecret")
    /\ LET credentials == getDeviceCredentials(tasks[t].creds.deviceId,
                                               getItem("deviceSecret"))
       IN IF credentials = NoCredentials
          THEN /\ tasks' = [tasks EXCEPT ![t] = IdleTask]
               /\ last' = Outcome(t, "false", "Device not registered", NULL)
          ELSE /\ tasks' = [tasks EXCEPT ![t].pc = "patch", ![t].net = 1,
                                        ![t].bearer = axiosAuth,
                                        ![t].creds = credentials]
               /\ UNCHANGED last
    /\ UNCHANGED <<storage, axiosAuth, auth, server, channel, feed, lists>>

updateSubscriptionSeverity_patch(t) ==
    /\ At(t, "updateSubscriptionSeverity", "patch")
    /\ DevicePatch(t)
    /\ UNCHANGED <<storage, axiosAuth, auth, channel, feed, lists>>

\* const registration = await this.getDeviceRegistration(); if (registration) ...
updateSubscriptionSeverity_getDeviceRegistration(t) ==
    /\ At(t, "updateSubscriptionSeverity", "getDeviceRegistration")
    /\ LET registration == getDeviceRegistration(storage) IN
       IF registration # NoRegistration
       THEN /\ tasks' = [tasks EXCEPT ![t].pc = "setItem", ![t].reg = registration]
            /\ UNCHANGED last
       ELSE Finish(t, "true", NULL, NULL)
    /\ UNCHANGED <<storage, axiosAuth, auth, server, channel, feed, lists>>

\* variant: the registration is written back as it was read
updateSubscriptionSeverity_setItem_stale(t) ==
    /\ At(t, "updateSubscriptionSeverity", "setItem")
    /\ setItem("deviceRegistration", JSONstringify(tasks[t].reg))
    /\ Finish(t, "true", NULL, NULL)
    /\ UNCHANGED <<axiosAuth, auth, server, channel, feed, lists>>

\* await AsyncStorage.setItem('deviceRegistration', JSON.stringify(updatedRegistration))
updateSubscriptionSeverity_setItem(t) ==
    /\ At(t, "updateSubscriptionSeverity", "setItem")
    /\ LET updatedRegistration ==
               [tasks[t].reg EXCEPT !.subscriptionSeverity = tasks[t].arg]
       IN \/ /\ setItem("deviceRegistration", JSONstringify(updatedRegistration))
             /\ Finish(t, "true", NULL, NULL)
          \/ /\ Finish(t, "false", "storage", NULL)
             /\ UNCHANGED storage
    /\ UNCHANGED <<axiosAuth, auth, server, channel, feed, lists>>

\* sendHeartbeat(pushToken?) is called
sendHeartbeat ==
    /\ Spawn(NewTask("sendHeartbeat", "getDeviceId", NULL))
    /\ UNCHANGED <<storage, axiosAuth, auth, server, channel, feed, lists, last>>

\* variant: the POST is issued whatever the credentials are
sendHeartbeat_getDeviceSecret_unguarded(t) ==
    /\ At(t, "sendHeartbeat", "getDeviceSecret")
    /\ tasks' = [tasks EXCEPT ![t].pc = "post", ![t].net = 1,
                             ![t].bearer = axiosAuth,
                             ![t].creds = [deviceId |-> tasks[t].creds.deviceId,
                                           deviceSecret |-> getItem("deviceSecret")]]
    /\ UNCHANGED <<storage, axiosAuth, auth, server, channel, feed, lists, last>>

\* credentials read; without them return false; else the POST is issued
sendHeartbeat_getDeviceSecret(t) ==
    /\ At(t, "sendHeartbeat", "getDeviceSecret")
    /\ LET credentials == getDeviceCredentials(tasks[t].creds.deviceId,
                                               getItem("deviceSecret"))
       IN IF credentials = NoCredentials
          THEN /\ tasks' = [tasks EXCEPT ![t] = IdleTask]
               /\ last' = Outcome(t, "false", "no credentials", NULL)
          ELSE /\ tasks' = [tasks EXCEPT ![t].pc = "post", ![t].net = 1,
                                        ![t].bearer = axiosAuth,
                                        ![t].creds = credentials]
               /\ UNCHANGED last
    /\ UNCHANGED <<storage, axiosAuth, auth, server, channel, feed, lists>>

\* the heartbeat POST is answered or fails
sendHeartbeat_post(t) ==
    /\ At(t, "sendHeartbeat", "post")
    /\ \/ /\ DeviceAccepted(tasks[t].creds.deviceId, tasks[t].creds.deviceSecret)
          /\ Finish(t, "true", NULL, NULL)
       \/ Finish(t, "false", "request", NULL)
    /\ UNCHANGED <<storage, axiosAuth, auth, server, channel, feed, lists>>

\* clearDeviceRegistration: AsyncStorage.multiRemove of the three keys; a
\* rejection is only logged
clearDeviceRegistration ==
    /\ \/ multiRemove({"deviceRegistration", "deviceId", "deviceSecret"})
       \/ UNCHANGED storage
    /\ last' = [NoOutcome EXCEPT !.op = "clearDeviceRegistration", !.result = "ok",
                   !.established = last.established]
    /\ UNCHANGED <<axiosAuth, auth, server, channel, feed, lists, tasks>>

----------------------------------------------------------------------------
(* NotificationProvider.sendTokenToServer *)

\* the expoPushToken prop: empty until a token has been obtained
PushTokens == {"", "ExponentPushToken[a]"}

\* sendTokenToServer: if (!expoPushToken) return; otherwise the stored auth token
\* is read next
sendTokenToServer(expoPushToken) ==
    /\ IF expoPushToken = ""
       THEN /\ last' = [NoOutcome EXCEPT !.op = "sendTokenToServer",
                           !.result = "return", !.error = "no push token",
                           !.established = last.established]
            /\ UNCHANGED tasks
       ELSE /\ Spawn(NewTask("sendTokenToServer", "getItem", expoPushToken))
            /\ UNCHANGED last
    /\ UNCHANGED <<storage, axiosAuth, auth, server, channel, feed, lists>>

\* const token = await AsyncStorage.getItem('authToken'); if (!token) return;
\* otherwise the POST goes out with its own Authorization header
sendTokenToServer_getItem(t) ==
    /\ At(t, "sendTokenToServer", "getItem")
    /\ LET token == getItem("authToken")
       IN \/ IF token = NULL
             THEN Finish(t, "return", "no auth token", NULL)
             ELSE /\ tasks' = [tasks EXCEPT ![t].pc = "post", ![t].net = 1,
                                           ![t].bearer = token]
                  /\ UNCHANGED last
          \/ Finish(t, "return", "storage", NULL)   \* getItem rejects: logged
    /\ UNCHANGED <<storage, axiosAuth, auth, server, channel, feed, lists>>

\* the POST to /api/register-push-token is answered, or fails and is logged
sendTokenToServer_post(t) ==
    /\ At(t, "sendTokenToServer", "post")
    /\ \/ /\ BearerAccepted(tasks[t].bearer)
          /\ Finish(t, "return", NULL, NULL)
       \/ Finish(t, "return", "request", NULL)
    /\ UNCHANGED <<storage, axiosAuth, auth, server, channel, feed, lists>>

----------------------------------------------------------------------------
(* DeviceService.getDeviceFilteredEscalations and FeedbackScreen *)

SetFeed(t, new) == feed' = IF tasks[t].alive THEN new ELSE feed

\* getDeviceFilteredEscalations() is called: pre keeps the storage of that moment
getDeviceFilteredEscalations ==
    /\ Spawn([NewTask("getDeviceFilteredEscalations", "getDeviceId", NULL)
                EXCEPT !.pre = storage])
    /\ UNCHANGED <<storage, axiosAuth, auth, server, channel, feed, lists, last>>

\* variant: a response is dropped unless the screen is still waiting for one
FetchReturned_firstWins(t, data) ==
    /\ IF tasks[t].op = "fetchDeviceFilteredEscalations"
       THEN SetFeed(t, [feed EXCEPT
                !.feedbacks = IF feed.loading \/ feed.refreshing THEN data ELSE @,
                !.loading = FALSE, !.refreshing = FALSE])
       ELSE UNCHANGED feed
    /\ Finish(t, data, NULL, NULL)

\* the call returns data; in FeedbackScreen.fetchDeviceFilteredEscalations:
\* setFeedbacks(escalations) and finally setLoading(false); setRefreshing(false)
FetchReturned(t, data) ==
    /\ IF tasks[t].op = "fetchDeviceFilteredEscalations"
       THEN SetFeed(t, [feed EXCEPT !.feedbacks = data, !.loading = FALSE,
                                    !.refreshing = FALSE])
       ELSE UNCHANGED feed
    /\ Finish(t, data, NULL, NULL)

\* variant: the failure is turned into an empty list
FetchThrew_emptyList(t, error) ==
    /\ IF tasks[t].op = "fetchDeviceFilteredEscalations"
       THEN SetFeed(t, [feed EXCEPT !.feedbacks = "[]", !.loading = FALSE,
                                    !.refreshing = FALSE])
       ELSE UNCHANGED feed
    /\ Finish(t, "[]", error, NULL)

\* the call throws; in FeedbackScreen.fetchDeviceFilteredEscalations: Alert 'Error',
\* 'Failed to load escalations. Please check your device registration.',
\* and finally setLoading(false); setRefreshing(false)
FetchThrew(t, error) ==
    IF tasks[t].op = "fetchDeviceFilteredEscalations"
    THEN /\ SetFeed(t, [feed EXCEPT !.loading = FALSE, !.refreshing = FALSE])
         /\ Finish(t, "throws", error, "Error")
    ELSE /\ UNCHANGED feed
         /\ Finish(t, "throws", error, NULL)

\* credentials read; without them return []; else the GET is issued with
\* x-device-id and x-device-secret
getDeviceFilteredEscalations_getDeviceSecret(t) ==
    /\ tasks[t].op \in FetchOps
    /\ tasks[t].pc = "getDeviceSecret"
    /\ LET credentials == getDeviceCredentials(tasks[t].creds.deviceId,
                                               getItem("deviceSecret"))
       IN IF credentials = NoCredentials
          THEN FetchReturned(t, "[]")
          ELSE /\ tasks' = [tasks EXCEPT ![t].pc = "get", ![t].net = 1,
                                        ![t].bearer = axiosAuth,
                                        ![t].creds = credentials]
               /\ UNCHANGED <<feed, last>>
    /\ UNCHANGED <<storage, axiosAuth, auth, server, channel, lists>>

\* the GET is answered (response.data || []) or fails
getDeviceFilteredEscalations_get(t) ==
    /\ tasks[t].op \in FetchOps
    /\ tasks[t].pc = "get"
    /\ \/ /\ DeviceAccepted(tasks[t].creds.deviceId, tasks[t].creds.deviceSecret)
          /\ \E data \in EscalationLists : FetchReturned(t, data)
       \/ FetchThrew(t, "request")
    /\ UNCHANGED <<storage, axiosAuth, auth, server, channel, lists>>

\* useEffect(() => { initializeAndFetch(); }, [])
FeedbackMount ==
    /\ auth.user # NULL
    /\ ~feed.mounted
    /\ Spawn(NewTask("initializeAndFetch", "getDeviceRegistration", NULL))
    /\ feed' = [InitialFeed EXCEPT !.mounted = TRUE]
    /\ UNCHANGED <<storage, axiosAuth, auth, server, channel, lists, last>>

\* isDeviceRegistered: const registration = await this.getDeviceRegistration()
initializeAndFetch_getDeviceRegistration(t) ==
    /\ At(t, "initializeAndFetch", "getDeviceRegistration")
    /\ tasks' = [tasks EXCEPT ![t].pc = "getDeviceId",
                             ![t].reg = getDeviceRegistration(storage)]
    /\ UNCHANGED <<storage, axiosAuth, auth, server, channel, feed, lists, last>>

\* isDeviceRegistered returns !!(registration && credentials);
\* setDeviceRegistered(isRegistered); not registered: setLoading(false)
initializeAndFetch_getDeviceSecret(t) ==
    /\ At(t, "initializeAndFetch", "getDeviceSecret")
    /\ LET credentials == getDeviceCredentials(tasks[t].creds.deviceId,
                                               getItem("deviceSecret"))
           isRegistered == tasks[t].reg # NoRegistration /\ credentials # NoCredentials
       IN IF isRegistered
          THEN /\ SetFeed(t, [feed EXCEPT !.deviceRegistered = TRUE])
               /\ Goto(t, "getSubscriptionSeverity")
               /\ UNCHANGED last
          ELSE /\ SetFeed(t, [feed EXCEPT !.deviceRegistered = FALSE,
                                          !.loading = FALSE])
               /\ Finish(t, "ok", NULL, NULL)
    /\ UNCHANGED <<storage, axiosAuth, auth, server, channel, lists>>

\* const severity = await DeviceService.getSubscriptionSeverity();
\* setSubscriptionSeverity(severity); await fetchDeviceFilteredEscalations()
initializeAndFetch_getSubscriptionSeverity(t) ==
    /\ At(t, "initializeAndFetch", "getSubscriptionSeverity")
    /\ SetFeed(t, [feed EXCEPT !.subscriptionSeverity = getSubscriptionSeverity(storage)])
    /\ tasks' = [tasks EXCEPT ![t] =
                   [NewTask("fetchDeviceFilteredEscalations", "getDeviceId", NULL)
                      EXCEPT !.pre = storage, !.alive = tasks[t].alive]]
    /\ UNCHANGED <<storage, axiosAuth, auth, server, channel, lists, last>>

\* the list with its RefreshControl is rendered once loading is false and
\* deviceRegistered is true; pulling is not held back while refreshing
onRefresh ==
    /\ feed.mounted
    /\ ~feed.loading
    /\ feed.deviceRegistered
    /\ feed' = [feed EXCEPT !.refreshing = TRUE]
    /\ Spawn([NewTask("fetchDeviceFilteredEscalations", "getDeviceId", NULL)
                EXCEPT !.pre = storage])
    /\ UNCHANGED <<storage, axiosAuth, auth, server, channel, lists, last>>

----------------------------------------------------------------------------
(* FeedbackScreen and FeedbackDetailScreen: what is shown of one escalation *)

\* JavaScript values of the untyped fields of an escalation.  A number counts
\* hundredths (450 is 4.5); a string is its sequence of characters.
Undefined == [type |-> "undefined", n |-> 0, s |-> <<>>]
JSNull == [type |-> "null", n |-> 0, s |-> <<>>]
Num(n) == [type |-> "number", n |-> n, s |-> <<>>]
Str(s) == [type |-> "string", n |-> 0, s |-> s]

\* an object is its properties in the order they were created
Object(entries) == [type |-> "object", entries |-> entries]
NoObject == [type |-> "undefined", entries |-> <<>>]

\* a value used as a condition
Truthy(v) ==
    CASE v.type = "number" -> v.n # 0
      [] v.type = "string" -> v.s # <<>>
      [] OTHER -> FALSE

Digit ==
    ("0" :> 0) @@ ("1" :> 1) @@ ("2" :> 2) @@ ("3" :> 3) @@ ("4" :> 4) @@
    ("5" :> 5) @@ ("6" :> 6) @@ ("7" :> 7) @@ ("8" :> 8) @@ ("9" :> 9)

\* a property name that is a canonical array index ("0", "1", "2", ... "10", ...)
IsArrayIndex(key) ==
    /\ key # <<>>
    /\ \A i \in 1..Len(key) : key[i] \in DOMAIN Digit
    /\ Len(key) > 1 => key[1] # "0"

RECURSIVE ToIndex(_)
ToIndex(key) ==
    IF key = <<>> THEN 0
    ELSE 10 * ToIndex(SubSeq(key, 1, Len(key) - 1)) + Digit[key[Len(key)]]

RECURSIVE trimStart(_)
trimStart(s) == IF s # <<>> /\ Head(s) = " " THEN trimStart(Tail(s)) ELSE s

RECURSIVE trimEnd(_)
trimEnd(s) ==
    IF s # <<>> /\ s[Len(s)] = " " THEN trimEnd(SubSeq(s, 1, Len(s) - 1)) ELSE s

\* String.prototype.trim
trim(s) == trimEnd(trimStart(s))

\* value > 0: a string operand is converted to a number first (white space around
\* it is dropped, the empty string is 0, decimal digits are their number, any
\* other text is NaN, which is not greater than anything)
GreaterThanZero(v) ==
    CASE v.type = "number" -> v.n > 0
      [] v.type = "string" ->
            LET text == trim(v.s)
            IN /\ text # <<>>
               /\ \A i \in 1..Len(text) : text[i] \in DOMAIN Digit
               /\ ToIndex(text) > 0
      [] OTHER -> FALSE

\* the exception of a call of a method the value does not have
\* ('feedback.primaryRating.toFixed is not a function')
TypeError == "TypeError"
\* the same where a function returns a value otherwise
Exception(name) == [type |-> name, n |-> 0, s |-> <<>>]

\* Object.entries: the own properties, array indices first in ascending numeric
\* order, then the other names in the order they were created
ObjectEntries(obj) ==
    LET indices == SelectSeq(obj.entries, LAMBDA e : IsArrayIndex(e.key))
        names == SelectSeq(obj.entries, LAMBDA e : ~IsArrayIndex(e.key))
    IN SortSeq(indices, LAMBDA a, b : ToIndex(a.key) < ToIndex(b.key)) \o names

\* Object.values: the values in the same order
ObjectValues(obj) ==
    LET entries == ObjectEntries(obj)
    IN [i \in 1..Len(entries) |-> entries[i].value]

RECURSIVE Sum(_)
\* ratingValues.reduce((sum, rating) => sum + rating, 0)
Sum(values) == IF values = <<>> THEN 0 ELSE Head(values).n + Sum(Tail(values))

\* variant: the digits after the first are cut off
toFixed_truncated(num, den) ==
    LET tenths == num \div (10 * den)
    IN ToString(tenths \div 10) \o "." \o ToString(tenths % 10)

\* (num / den).toFixed(1) of a quotient that is not negative: the decimal with one
\* digit after the point that is nearest, the larger one of two equally near
toFixed(num, den) ==
    LET tenths == (2 * num + 10 * den) \div (20 * den)
    IN ToString(tenths \div 10) \o "." \o ToString(tenths % 10)

\* variant: the mean of the ratings comes first, the primary rating second
getAverageRating_ratingsFirst(feedback) ==
    LET ratingValues ==
            IF feedback.ratings.type = "object"
            THEN SelectSeq(ObjectValues(feedback.ratings),
                           LAMBDA rating : rating.type = "number" /\ rating.n > 0)
            ELSE <<>>
    IN IF Len(ratingValues) > 0
       THEN toFixed(Sum(ratingValues), Len(ratingValues))
       ELSE IF Truthy(feedback.primaryRating) /\ GreaterThanZero(feedback.primaryRating)
            THEN IF feedback.primaryRating.type = "number"
                 THEN toFixed(feedback.primaryRating.n, 1)
                 ELSE TypeError
            ELSE "0.0"

\* variant: every number of the mapping is averaged, positive or not
getAverageRating_anyNumber(feedback) ==
    IF Truthy(feedback.primaryRating) /\ GreaterThanZero(feedback.primaryRating)
    THEN IF feedback.primaryRating.type = "number"
         THEN toFixed(feedback.primaryRating.n, 1)
         ELSE TypeError
    ELSE LET ratingValues ==
                 IF feedback.ratings.type = "object"
                 THEN SelectSeq(ObjectValues(feedback.ratings),
                                LAMBDA rating : rating.type = "number")
                 ELSE <<>>
         IN IF Len(ratingValues) > 0
            THEN toFixed(Sum(ratingValues), Len(ratingValues))
            ELSE "0.0"

\* getAverageRating (the same function in FeedbackScreen and FeedbackDetailScreen)
getAverageRating(feedback) ==
    IF Truthy(feedback.primaryRating) /\ GreaterThanZero(feedback.primaryRating)
    THEN IF feedback.primaryRating.type = "number"
         THEN toFixed(feedback.primaryRating.n, 1)
         ELSE TypeError
    ELSE LET ratingValues ==
                 IF feedback.ratings.type = "object"
                 THEN SelectSeq(ObjectValues(feedback.ratings),
                                LAMBDA rating : rating.type = "number" /\ rating.n > 0)
                 ELSE <<>>
         IN IF Len(ratingValues) > 0
            THEN toFixed(Sum(ratingValues), Len(ratingValues))
            ELSE "0.0"

\* String.prototype.toUpperCase on one character
toUpperCase(c) ==
    CASE c = "a" -> "A" [] c = "b" -> "B" [] c = "c" -> "C" [] c = "d" -> "D"
      [] c = "e" -> "E" [] c = "f" -> "F" [] c = "g" -> "G" [] c = "o" -> "O"
      [] c = "s" -> "S" [] c = "t" -> "T"
      [] OTHER -> c

\* key.charAt(0).toUpperCase() + key.slice(1)
Label(key) == IF key = <<>> THEN <<>> ELSE <<toUpperCase(Head(key))>> \o Tail(key)

\* .slice(0, 5): 'Limit to max 5 ratings for mobile display'
MaxDisplayed == 5

\* getAvailableRatings
getAvailableRatings(feedback) ==
    IF feedback.ratings.type = "object"
    THEN LET positive == SelectSeq(ObjectEntries(feedback.ratings),
                             LAMBDA e : e.value.type = "number" /\ e.value.n > 0)
             shown == SubSeq(positive, 1,
                             IF Len(positive) < MaxDisplayed THEN Len(positive)
                                                             ELSE MaxDisplayed)
         IN [i \in 1..Len(shown) |->
               [key |-> shown[i].key, label |-> Label(shown[i].key),
                value |-> shown[i].value.n]]
    ELSE <<>>

RECURSIVE join_reversed(_, _)
\* variant: the last value comes first
join_reversed(values, separator) ==
    IF values = <<>> THEN <<>>
    ELSE IF Len(values) = 1 THEN Head(values).s
    ELSE join_reversed(Tail(values), separator) \o separator \o Head(values).s

RECURSIVE join(_, _)
\* Array.prototype.join on strings
join(values, separator) ==
    IF values = <<>> THEN <<>>
    ELSE IF Len(values) = 1 THEN Head(values).s
    ELSE Head(values).s \o separator \o join(Tail(values), separator)

\* variant: the primary comment is returned trimmed
getAllComments_trimmed(feedback) ==
    IF Truthy(feedback.primaryComment) /\ feedback.primaryComment.type # "string"
    THEN Exception(TypeError)
    ELSE IF Truthy(feedback.primaryComment) /\ trim(feedback.primaryComment.s) # <<>>
    THEN Str(trim(feedback.primaryComment.s))
    ELSE JSNull

\* getAllComments
getAllComments(feedback) ==
    IF Truthy(feedback.primaryComment) /\ feedback.primaryComment.type # "string"
    THEN Exception(TypeError)   \* 'feedback.primaryComment.trim is not a function'
    ELSE IF Truthy(feedback.primaryComment) /\ trim(feedback.primaryComment.s) # <<>>
    THEN feedback.primaryComment
    ELSE LET commentValues ==
                 IF feedback.comments.type = "object"
                 THEN SelectSeq(ObjectValues(feedback.comments),
                                LAMBDA comment : /\ comment.type = "string"
                                                 /\ Len(trim(comment.s)) > 0)
                 ELSE <<>>
         IN IF Len(commentValues) > 0
            THEN Str(join(commentValues, <<" ", "|", " ">>))
            ELSE JSNull

\* the fields of a DeviceFilteredEscalation that the three functions read
Feedback(primaryRating, ratings, primaryComment, comments) ==
    [primaryRating |-> primaryRating, ratings |-> ratings,
     primaryComment |-> primaryComment, comments |-> comments,
     isEscalated |-> FALSE, severity |-> Undefined]

\* variant: the icon is chosen as if every severity that is not 'high' were 'medium'
escalationBanner_mixed(severity) ==
    [backgroundColor |-> IF severity = Str(<<"h", "i", "g", "h">>) THEN "#FEF2F2"
                         ELSE IF severity = Str(<<"m", "e", "d", "i", "u", "m">>)
                              THEN "#FFFBEB" ELSE "#EBF4FF",
     name |-> IF severity = Str(<<"h", "i", "g", "h">>) THEN "alert-circle"
              ELSE "warning",
     color |-> IF severity = Str(<<"h", "i", "g", "h">>) THEN "#EF4444"
               ELSE IF severity = Str(<<"m", "e", "d", "i", "u", "m">>)
                    THEN "#F59E0B" ELSE "#3B82F6",
     textColor |-> IF severity = Str(<<"h", "i", "g", "h">>) THEN "#EF4444"
                   ELSE IF severity = Str(<<"m", "e", "d", "i", "u", "m">>)
                        THEN "#F59E0B" ELSE "#3B82F6"]

\* the escalation banner of the card and of the detail screen: the background of
\* the banner, the name and the color of its icon, the color of its text, each
\* from its own chain of item.severity === 'high' ? ... : === 'medium' ? ... : ...
escalationBanner(severity) ==
    [backgroundColor |-> IF severity = Str(<<"h", "i", "g", "h">>) THEN "#FEF2F2"
                         ELSE IF severity = Str(<<"m", "e", "d", "i", "u", "m">>)
                              THEN "#FFFBEB" ELSE "#EBF4FF",
     name |-> IF severity = Str(<<"h", "i", "g", "h">>) THEN "alert-circle"
              ELSE IF severity = Str(<<"m", "e", "d", "i", "u", "m">>)
                   THEN "warning" ELSE "information-circle",
     color |-> IF severity = Str(<<"h", "i", "g", "h">>) THEN "#EF4444"
               ELSE IF severity = Str(<<"m", "e", "d", "i", "u", "m">>)
                    THEN "#F59E0B" ELSE "#3B82F6",
     textColor |-> IF severity = Str(<<"h", "i", "g", "h">>) THEN "#EF4444"
                   ELSE IF severity = Str(<<"m", "e", "d", "i", "u", "m">>)
                        THEN "#F59E0B" ELSE "#3B82F6"]

\* no banner: item.isEscalated && (...) is false
NoBanner == [backgroundColor |-> NULL, name |-> NULL, color |-> NULL, textColor |-> NULL]

\* property names in the order the backend wrote them: words only, and words
\* mixed with array indices that were written out of numeric order
WordNames ==
    << <<"f", "o", "o", "d">>, <<"s", "t", "a", "f", "f">>, <<"a">>, <<"b">>,
       <<"c">>, <<"d">>, <<"e">>, <<"g">>, <<"t", "o">> >>
MixedNames ==
    << <<"f", "o", "o", "d">>, <<"2">>, <<"1", "0">>, <<"1">>, <<"a">>, <<"b">>,
       <<"c">>, <<"d">>, <<"e">> >>

\* the objects whose properties are the first n names, n up to max, with values
\* from the given set
Objects(names, values, max) ==
    UNION { { Object([i \in 1..n |-> [key |-> names[i], value |-> v[i]]]) :
                v \in [1..n -> values] } : n \in 0..max }

RECURSIVE Strings(_, _)
\* the strings of at most max characters over the given characters
Strings(chars, max) ==
    IF max = 0 THEN {<<>>}
    ELSE LET shorter == Strings(chars, max - 1)
         IN shorter \cup { Append(str, c) : str \in shorter, c \in chars }

\* primaryRating?: number
PrimaryRatings == {Undefined, Num(0), Num(-100), Num(425), Num(450)}
\* ratings: any
RatingValues == {Num(200), Num(400), Num(450), Num(0), Num(-100), Str(<<"5">>)}
DisplayValues == {Num(400), Num(0), Str(<<"5">>)}
\* primaryComment?: string
PrimaryComments == {Undefined} \cup { Str(str) : str \in Strings({" ", "a"}, MaxChars) }
\* comments: any
CommentValues == {Str(<<>>), Str(<<" ">>), Str(<<"b">>), Str(<<"c", " ">>), Num(100)}

\* escalations that differ in the rating fields, in the number and the names of
\* the ratings, and in the comment fields
RatingItems ==
    { Feedback(primaryRating, ratings, Undefined, NoObject) :
        primaryRating \in PrimaryRatings,
        ratings \in {NoObject} \cup Objects(WordNames, RatingValues, MaxRatings) }
DisplayItems ==
    { Feedback(Undefined, ratings, Undefined, NoObject) :
        ratings \in Objects(WordNames, DisplayValues, MaxEntries)
                      \cup Objects(MixedNames, DisplayValues, MaxEntries) }
CommentItems ==
    { Feedback(Undefined, NoObject, primaryComment, comments) :
        primaryComment \in PrimaryComments,
        comments \in {NoObject} \cup Objects(WordNames, CommentValues, MaxComments)
                       \cup Objects(MixedNames, CommentValues, MaxComments) }
\* severity?: 'low' | 'medium' | 'high' | 'critical', and a value outside the type
Severity ==
    {Undefined, Str(<<"h", "i", "g", "h">>), Str(<<"m", "e", "d", "i", "u", "m">>),
     Str(<<"l", "o", "w">>), Str(<<"c", "r", "i", "t", "i", "c", "a", "l">>),
     Str(<<"H", "i", "g", "h">>)}
\* escalations with every severity, escalated or not
SeverityItems ==
    { [Feedback(Undefined, NoObject, Undefined, NoObject)
         EXCEPT !.isEscalated = isEscalated, !.severity = severity] :
        isEscalated \in BOOLEAN, severity \in Severity }
\* escalations whose primary fields hold a value of another type than declared:
\* a rating sent as text, a comment sent as a number
UntypedItems ==
    { Feedback(primaryRating, NoObject, Undefined, NoObject) :
        primaryRating \in {Str(<<"5">>), Str(<<"0">>), Str(<<"a">>), Str(<<>>), JSNull} }
    \cup { Feedback(Undefined, NoObject, primaryComment, comments) :
             primaryComment \in {Num(500), Num(0), JSNull},
             comments \in {NoObject}
                           \cup Objects(WordNames, {Str(<<"b">>), JSNull}, 1) }
Items == RatingItems \cup DisplayItems \cup CommentItems \cup SeverityItems
             \cup UntypedItems

\* the exception a render ends with when one of the functions it calls throws
Thrown(averageRating, allComments) ==
    IF averageRating = TypeError \/ allComments.type = TypeError
    THEN TypeError ELSE NULL

\* renderFeedbackItem({ item }): the FlatList renders the card of an escalation of
\* the list that has just been delivered; the result holds what each function
\* returns for the item
renderFeedbackItem ==
    /\ feed.mounted
    /\ ~feed.loading
    /\ feed.deviceRegistered
    /\ feed.feedbacks # "[]"
    /\ last.op = "fetchDeviceFilteredEscalations"
    /\ last.error = NULL
    /\ \E item \in Items :
         last' = [NoOutcome EXCEPT
                    !.op = "renderFeedbackItem",
                    !.result = [item |-> item,
                                averageRating |-> getAverageRating(item),
                                banner |-> IF item.isEscalated
                                           THEN escalationBanner(item.severity)
                                           ELSE NoBanner,
                                availableRatings |-> getAvailableRatings(item),
                                allComments |-> getAllComments(item)],
                    !.error = Thrown(getAverageRating(item), getAllComments(item)),
                    !.established = last.established]
    /\ UNCHANGED <<storage, axiosAuth, auth, server, channel, feed, lists, tasks>>

\* the card is pressed: navigation.navigate('FeedbackDetail', { feedback: item })
\* and FeedbackDetailScreen shows getAverageRating() of it, the banner, and the
\* comment block {feedback.primaryComment && (...)}
FeedbackDetail ==
    /\ last.op = "renderFeedbackItem"
    /\ last.error = NULL
    /\ LET feedback == last.result.item
       IN last' = [NoOutcome EXCEPT
                     !.op = "FeedbackDetail",
                     !.result = [item |-> feedback,
                                 averageRating |-> getAverageRating(feedback),
                                 banner |-> IF feedback.isEscalated
                                            THEN escalationBanner(feedback.severity)
                                            ELSE NoBanner,
                                 availableRatings |-> <<>>,
                                 allComments |-> IF Truthy(feedback.primaryComment)
                                                 THEN feedback.primaryComment
                                                 ELSE JSNull],
                     !.error = Thrown(getAverageRating(feedback), JSNull),
                     !.established = last.established]
    /\ UNCHANGED <<storage, axiosAuth, auth, server, channel, feed, lists, tasks>>

----------------------------------------------------------------------------
(* The color of a rating on the screens that show one *)

\* the ratings from 0 to 5, in hundredths
Ratings == 0..MaxRating

\* variant: the lower bound of a tier belongs to the tier below
getRatingColor_exclusive(rating) ==
    IF rating > 400 THEN "#10B981"
    ELSE IF rating > 300 THEN "#F59E0B"
    ELSE "#EF4444"

\* FeedbackScreen.getRatingColor
getRatingColor(rating) ==
    IF rating >= 400 THEN "#10B981"
    ELSE IF rating >= 300 THEN "#F59E0B"
    ELSE "#EF4444"

\* FeedbackDetailScreen.getRatingColor
FeedbackDetailScreen_getRatingColor(rating) ==
    IF rating >= 400 THEN "#10B981"
    ELSE IF rating >= 300 THEN "#F59E0B"
    ELSE "#EF4444"

\* GuestHistoryScreen.getRatingColor
GuestHistoryScreen_getRatingColor(rating) ==
    IF rating >= 400 THEN "#10B981"
    ELSE IF rating >= 300 THEN "#F59E0B"
    ELSE "#EF4444"

\* DashboardScreen.getStatusColor
getStatusColor(rating) ==
    IF rating >= 400 THEN "#10B981"
    ELSE IF rating >= 300 THEN "#F59E0B"
    ELSE "#EF4444"

\* EscalationsScreen.getRatingColor
EscalationsScreen_getRatingColor(rating) ==
    IF rating <= 200 THEN "#FF006E"
    ELSE IF rating <= 300 THEN "#FEE440"
    ELSE "#00F5D4"

ColorScreens == {"FeedbackScreen", "FeedbackDetailScreen", "GuestHistoryScreen",
                 "DashboardScreen", "EscalationsScreen"}

\* a rating comes up that the screens show: no screen has colored it yet
RatingShown ==
    \E rating \in Ratings :
        /\ last' = [NoOutcome EXCEPT
                      !.op = "rating",
                      !.result = [rating |-> rating,
                                  color |-> [screen \in ColorScreens |-> NULL]],
                      !.established = last.established]
        /\ UNCHANGED <<storage, axiosAuth, auth, server, channel, feed, lists, tasks>>

\* a screen renders the rating in the color its function returns
Colored(screen, color) ==
    /\ last.result.color[screen] = NULL
    /\ last' = [last EXCEPT !.result.color[screen] = color]
    /\ UNCHANGED <<storage, axiosAuth, auth, server, channel, feed, lists, tasks>>

\* color: getRatingColor(avgRating) on the card of the feed
FeedbackScreen_rating ==
    last.op = "rating" /\ Colored("FeedbackScreen", getRatingColor(last.result.rating))

\* color: getRatingColor(avgRating) on the detail screen
FeedbackDetailScreen_rating ==
    /\ last.op = "rating"
    /\ Colored("FeedbackDetailScreen",
               FeedbackDetailScreen_getRatingColor(last.result.rating))

\* color: getRatingColor(item.averageRating) on the guest history
GuestHistoryScreen_rating ==
    /\ last.op = "rating"
    /\ Colored("GuestHistoryScreen",
               GuestHistoryScreen_getRatingColor(last.result.rating))

\* backgroundColor: getStatusColor(value) on the dashboard
DashboardScreen_rating ==
    last.op = "rating" /\ Colored("DashboardScreen", getStatusColor(last.result.rating))

\* color: getRatingColor(item.primaryRating) on the escalations list
EscalationsScreen_rating ==
    /\ last.op = "rating"
    /\ Colored("EscalationsScreen",
               EscalationsScreen_getRatingColor(last.result.rating))

----------------------------------------------------------------------------
(* GuestHistoryListScreen, EscalationsScreen, DashboardScreen, SettingsScreen *)

SetLists(t, new) == lists' = IF tasks[t].alive THEN new ELSE lists

\* a GET sent with the default Authorization header of the moment
Request(op, arg) ==
    [NewTask(op, "get", arg) EXCEPT !.net = 1, !.bearer = axiosAuth]

\* GuestHistoryListScreen: useEffect(() => { fetchGuests(); }, [])
GuestHistoryListMount ==
    /\ auth.user # NULL
    /\ ~lists.guests.mounted
    /\ Spawn(Request("fetchGuests", NULL))
    /\ lists' = [lists EXCEPT !.guests = [InitialLists.guests EXCEPT !.mounted = TRUE]]
    /\ UNCHANGED <<storage, axiosAuth, auth, server, channel, feed, last>>

\* handleRefresh: setRefreshing(true); await fetchGuests(); setRefreshing(false)
GuestHistoryListScreen_handleRefresh ==
    /\ lists.guests.mounted
    /\ ~lists.guests.loading
    /\ Spawn(Request("fetchGuests", "handleRefresh"))
    /\ lists' = [lists EXCEPT !.guests.refreshing = TRUE]
    /\ UNCHANGED <<storage, axiosAuth, auth, server, channel, feed, last>>

\* fetchGuests: the GET is answered, setGuests(response.data || []); or it fails and
\* the inner catch does setGuests(mockGuests); finally setLoading(false)
fetchGuests_get(t) ==
    /\ At(t, "fetchGuests", "get")
    /\ LET settled(data) ==
               [lists EXCEPT !.guests.data = data, !.guests.loading = FALSE,
                             !.guests.refreshing =
                                 IF tasks[t].arg = "handleRefresh" THEN FALSE ELSE @]
       IN \/ /\ BearerAccepted(tasks[t].bearer)
             /\ \E data \in GuestLists :
                  /\ SetLists(t, settled(data))
                  /\ Finish(t, data, NULL, NULL)
          \/ /\ SetLists(t, settled(mockGuests))
             /\ Finish(t, mockGuests, "request", NULL)
    /\ UNCHANGED <<storage, axiosAuth, auth, server, channel, feed>>

\* fetchEscalations: buildApiUrl(API_ENDPOINTS.ESCALATIONS) throws before any
\* request (the key is not defined), the inner catch does
\* setEscalations(mockEscalations); finally setLoading(false).  Nothing is awaited.
fetchEscalations(refreshing) ==
    /\ lists' = [lists EXCEPT !.escalations =
                    [data |-> mockEscalations, loading |-> FALSE,
                     refreshing |-> refreshing, mounted |-> TRUE]]
    /\ last' = [NoOutcome EXCEPT !.op = "fetchEscalations", !.result = mockEscalations,
                                 !.error = "buildApiUrl",
                                 !.established = last.established]

\* EscalationsScreen: useEffect(() => { fetchEscalations(); }, [])
EscalationsMount ==
    /\ auth.user # NULL
    /\ ~lists.escalations.mounted
    /\ fetchEscalations(FALSE)
    /\ UNCHANGED <<storage, axiosAuth, auth, server, channel, feed, tasks>>

\* handleRefresh: setRefreshing(true); await fetchEscalations(); setRefreshing(false)
EscalationsScreen_handleRefresh ==
    /\ lists.escalations.mounted
    /\ ~lists.escalations.loading
    /\ fetchEscalations(FALSE)
    /\ UNCHANGED <<storage, axiosAuth, auth, server, channel, feed, tasks>>

\* DashboardScreen: useEffect(() => { fetchData(); }, [])
DashboardMount ==
    /\ auth.user # NULL
    /\ ~lists.dashboard.mounted
    /\ Spawn(Request("fetchData", NULL))
    /\ lists' = [lists EXCEPT !.dashboard =
                    [InitialLists.dashboard EXCEPT !.mounted = TRUE]]
    /\ UNCHANGED <<storage, axiosAuth, auth, server, channel, feed, last>>

\* onRefresh: setRefreshing(true); fetchData()
DashboardScreen_onRefresh ==
    /\ lists.dashboard.mounted
    /\ ~lists.dashboard.loading
    /\ Spawn(Request("fetchData", NULL))
    /\ lists' = [lists EXCEPT !.dashboard.refreshing = TRUE]
    /\ UNCHANGED <<storage, axiosAuth, auth, server, channel, feed, last>>

\* catch: Alert 'Error'; finally setLoading(false); setRefreshing(false)
FetchDataFailed(t) ==
    /\ SetLists(t, [lists EXCEPT !.dashboard.loading = FALSE,
                                 !.dashboard.refreshing = FALSE])
    /\ Finish(t, "fail", "request", "Error")

\* fetchData: GET RESTAURANT answered: setRestaurant, GET RESTAURANT_STATS issued
fetchData_get(t) ==
    /\ At(t, "fetchData", "get")
    /\ \/ /\ BearerAccepted(tasks[t].bearer)
          /\ \E data \in Restaurants :
               SetLists(t, [lists EXCEPT !.dashboard.restaurant = data])
          /\ tasks' = [tasks EXCEPT ![t].pc = "getStats", ![t].net = 2,
                                   ![t].bearer = axiosAuth]
          /\ UNCHANGED last
       \/ FetchDataFailed(t)
    /\ UNCHANGED <<storage, axiosAuth, auth, server, channel, feed>>

\* fetchData: GET RESTAURANT_STATS answered: setStats; finally
fetchData_getStats(t) ==
    /\ At(t, "fetchData", "getStats")
    /\ \/ /\ BearerAccepted(tasks[t].bearer)
          /\ \E data \in Stats :
               SetLists(t, [lists EXCEPT !.dashboard.stats = data,
                                         !.dashboard.loading = FALSE,
                                         !.dashboard.refreshing = FALSE])
          /\ Finish(t, "ok", NULL, NULL)
       \/ FetchDataFailed(t)
    /\ UNCHANGED <<storage, axiosAuth, auth, server, channel, feed>>

\* SettingsScreen: useEffect(() => { fetchRestaurant(); ... }, []); its
\* initializeNotificationChannel is the one of NotificationChannelScreen above
SettingsMount ==
    /\ auth.user # NULL
    /\ ~lists.settings.mounted
    /\ Spawn(Request("fetchRestaurant", NULL))
    /\ lists' = [lists EXCEPT !.settings =
                    [InitialLists.settings EXCEPT !.mounted = TRUE]]
    /\ UNCHANGED <<storage, axiosAuth, auth, server, channel, feed, last>>

\* fetchRestaurant: setRestaurant(response.data), or console.error only; finally
\* setLoading(false)
fetchRestaurant_get(t) ==
    /\ At(t, "fetchRestaurant", "get")
    /\ \/ /\ BearerAccepted(tasks[t].bearer)
          /\ \E data \in Restaurants :
               SetLists(t, [lists EXCEPT !.settings.restaurant = data,
                                         !.settings.loading = FALSE])
          /\ Finish(t, "ok", NULL, NULL)
       \/ /\ SetLists(t, [lists EXCEPT !.settings.loading = FALSE])
          /\ Finish(t, "fail", "request", NULL)
    /\ UNCHANGED <<storage, axiosAuth, auth, server, channel, feed>>

----------------------------------------------------------------------------
(* Process lifetime *)

\* AuthProvider mounts: useEffect(() => { checkAuthStatus() }, [])
StartedTasks ==
    [t \in TaskIds |-> IF t = 1 THEN NewTask("checkAuthStatus", "getItem", NULL)
                               ELSE IdleTask]

Init ==
    /\ storage = EmptyStorage
    /\ axiosAuth = NULL
    /\ auth = [user |-> NULL, loading |-> TRUE]
    /\ server = [session |-> FALSE, device |-> NoRegistration, issued |-> 0]
    /\ channel = InitialChannel
    /\ feed = InitialFeed
    /\ lists = InitialLists
    /\ tasks = StartedTasks
    /\ last = NoOutcome

\* the app process is killed and started again: memory is lost, AsyncStorage and
\* the backend are kept
AppRestart ==
    /\ axiosAuth' = NULL
    /\ auth' = [user |-> NULL, loading |-> TRUE]
    /\ channel' = InitialChannel
    /\ feed' = InitialFeed
    /\ lists' = InitialLists
    /\ tasks' = StartedTasks
    /\ last' = [NoOutcome EXCEPT !.established = last.established]
    /\ UNCHANGED <<storage, server>>

AuthNext ==
    \/ \E t \in TaskIds : checkAuthStatus_getItem(t)
    \/ \E t \in TaskIds : checkAuthStatus_verify(t)
    \/ \E t \in TaskIds : checkAuthStatus_catch(t)
    \/ login
    \/ \E t \in TaskIds : login_post(t)
    \/ \E t \in TaskIds : login_setItem(t)
    \/ \E t \in TaskIds : login_getUser(t)
    \/ logout
    \/ \E t \in TaskIds : logout_post(t)
    \/ \E t \in TaskIds : logout_finally(t)
    \/ ServerExpiresSession
    \/ AppRestart

SpecAuth == Init /\ [][AuthNext]_vars

\* the state a first login leaves: checkAuthStatus found no token, login returned true
LoggedIn ==
    /\ storage = [EmptyStorage EXCEPT !["authToken"] = "token-1"]
    /\ axiosAuth = "token-1"
    /\ auth = [user |-> UserData, loading |-> FALSE]
    /\ server = [session |-> TRUE, device |-> NoRegistration, issued |-> 0]
    /\ channel = InitialChannel
    /\ feed = InitialFeed
    /\ lists = InitialLists
    /\ tasks = [t \in TaskIds |-> IdleTask]
    /\ last = [NoOutcome EXCEPT !.op = "login", !.result = "true", !.net = 2,
                                !.established = TRUE]

FetchNext ==
    \/ getDeviceFilteredEscalations
    \/ \E t \in TaskIds : getDeviceCredentials_deviceId(t)
    \/ \E t \in TaskIds : getDeviceFilteredEscalations_getDeviceSecret(t)
    \/ \E t \in TaskIds : getDeviceFilteredEscalations_get(t)

RegisterNext ==
    \/ NotificationChannelMount
    \/ NotificationChannelUnmount
    \/ \E t \in TaskIds : initializeNotificationChannel_getPermissions(t)
    \/ \E t \in TaskIds : initializeNotificationChannel_getItem(t)
    \/ registerDevice
    \/ \E t \in TaskIds : registerDevice_requestPermission(t)
    \/ \E t \in TaskIds : registerDevice_getExpoPushToken(t)
    \/ \E t \in TaskIds : registerDevice_post(t)
    \/ \E t \in TaskIds : registerDevice_setItemRegistration(t)
    \/ \E t \in TaskIds : registerDevice_setItemDeviceId(t)
    \/ \E t \in TaskIds : registerDevice_setItemDeviceSecret(t)
    \/ FetchNext

\* registration and the fetch path, from the logged-in state
SpecRegister == LoggedIn /\ [][RegisterNext]_vars

\* the state a first registration leaves once its screen has been left again
FirstRegistration ==
    [id |-> "device-record-id", deviceSecret |-> SecretNames[1],
     subscriptionSeverity |-> "medium"]

Registered ==
    /\ storage = [EmptyStorage EXCEPT
                    !["authToken"] = "token-1",
                    !["deviceRegistration"] = JSONstringify(FirstRegistration),
                    !["deviceId"] = HwDeviceId,
                    !["deviceSecret"] = FirstRegistration.deviceSecret]
    /\ axiosAuth = "token-1"
    /\ auth = [user |-> UserData, loading |-> FALSE]
    /\ server = [session |-> TRUE, device |-> FirstRegistration, issued |-> 1]
    /\ channel = InitialChannel
    /\ feed = InitialFeed
    /\ lists = InitialLists
    /\ tasks = [t \in TaskIds |-> IdleTask]
    /\ last = [NoOutcome EXCEPT !.op = "registerDevice", !.result = "success",
                                !.alert = "Device Registered", !.net = 1,
                                !.reg = FirstRegistration, !.established = TRUE]

ServiceNext ==
    \/ \E t \in TaskIds : getDeviceCredentials_deviceId(t)
    \/ \E newSeverity \in Severities : updateSubscriptionSeverity(newSeverity)
    \/ \E t \in TaskIds : updateSubscriptionSeverity_getDeviceSecret(t)
    \/ \E t \in TaskIds : updateSubscriptionSeverity_patch(t)
    \/ \E t \in TaskIds : updateSubscriptionSeverity_getDeviceRegistration(t)
    \/ \E t \in TaskIds : updateSubscriptionSeverity_setItem(t)
    \/ sendHeartbeat
    \/ \E t \in TaskIds : sendHeartbeat_getDeviceSecret(t)
    \/ \E t \in TaskIds : sendHeartbeat_post(t)
    \/ clearDeviceRegistration

\* DeviceService calls on a device that is registered or not
ServiceInit == LoggedIn \/ Registered

SpecService == ServiceInit /\ [][ServiceNext]_vars

FeedNext ==
    \/ FeedbackMount
    \/ \E t \in TaskIds : initializeAndFetch_getDeviceRegistration(t)
    \/ \E t \in TaskIds : getDeviceCredentials_deviceId(t)
    \/ \E t \in TaskIds : initializeAndFetch_getDeviceSecret(t)
    \/ \E t \in TaskIds : initializeAndFetch_getSubscriptionSeverity(t)
    \/ \E t \in TaskIds : getDeviceFilteredEscalations_getDeviceSecret(t)
    \/ \E t \in TaskIds : getDeviceFilteredEscalations_get(t)
    \/ onRefresh
    \/ clearDeviceRegistration

\* the escalations feed on a device that is registered or not
SpecFeed == ServiceInit /\ [][FeedNext]_vars

ScreensNext ==
    \/ GuestHistoryListMount
    \/ GuestHistoryListScreen_handleRefresh
    \/ \E t \in TaskIds : fetchGuests_get(t)
    \/ EscalationsMount
    \/ EscalationsScreen_handleRefresh
    \/ DashboardMount
    \/ DashboardScreen_onRefresh
    \/ \E t \in TaskIds : fetchData_get(t)
    \/ \E t \in TaskIds : fetchData_getStats(t)
    \/ SettingsMount
    \/ \E t \in TaskIds : fetchRestaurant_get(t)
    \/ ServerExpiresSession

\* the list screens, the dashboard and the settings screen after login
SpecScreens == LoggedIn /\ [][ScreensNext]_vars

\* no handler is in flight
Quiet == InFlight = {}

\* the operations a registered device goes through: logout and login, severity
\* updates from the screen and through DeviceService, heartbeat, fetch, the feed and
\* its refresh, and clearing; the user starts one operation at a time
LifecycleNext ==
    \/ Quiet /\ logout
    \/ \E t \in TaskIds : logout_post(t)
    \/ \E t \in TaskIds : logout_finally(t)
    \/ Quiet /\ login
    \/ \E t \in TaskIds : login_post(t)
    \/ \E t \in TaskIds : login_setItem(t)
    \/ \E t \in TaskIds : login_getUser(t)
    \/ Quiet /\ NotificationChannelMount
    \/ \E t \in TaskIds : initializeNotificationChannel_getPermissions(t)
    \/ \E t \in TaskIds : initializeNotificationChannel_getItem(t)
    \/ \E newSeverity \in Severities : Quiet /\ updateSubscription(newSeverity)
    \/ \E t \in TaskIds : updateSubscription_getDeviceId(t)
    \/ \E t \in TaskIds : updateSubscription_getDeviceSecret(t)
    \/ \E t \in TaskIds : updateSubscription_patch(t)
    \/ \E t \in TaskIds : updateSubscription_setItem(t)
    \/ \E t \in TaskIds : getDeviceCredentials_deviceId(t)
    \/ \E newSeverity \in Severities : Quiet /\ updateSubscriptionSeverity(newSeverity)
    \/ \E t \in TaskIds : updateSubscriptionSeverity_getDeviceSecret(t)
    \/ \E t \in TaskIds : updateSubscriptionSeverity_patch(t)
    \/ \E t \in TaskIds : updateSubscriptionSeverity_getDeviceRegistration(t)
    \/ \E t \in TaskIds : updateSubscriptionSeverity_setItem(t)
    \/ Quiet /\ sendHeartbeat
    \/ \E t \in TaskIds : sendHeartbeat_getDeviceSecret(t)
    \/ \E t \in TaskIds : sendHeartbeat_post(t)
    \/ Quiet /\ getDeviceFilteredEscalations
    \/ \E t \in TaskIds : getDeviceFilteredEscalations_getDeviceSecret(t)
    \/ \E t \in TaskIds : getDeviceFilteredEscalations_get(t)
    \/ Quiet /\ FeedbackMount
    \/ \E t \in TaskIds : initializeAndFetch_getDeviceRegistration(t)
    \/ \E t \in TaskIds : initializeAndFetch_getDeviceSecret(t)
    \/ \E t \in TaskIds : initializeAndFetch_getSubscriptionSeverity(t)
    \/ Quiet /\ onRefresh
    \/ Quiet /\ clearDeviceRegistration

SpecLifecycle == Registered /\ [][LifecycleNext]_vars

\* the calls that test a local precondition first, on a device that is registered
\* or not, across logout and login; one such call runs at a time, while logout,
\* login and clearDeviceRegistration may fall between its steps
PreconditionsNext ==
    \/ login
    \/ \E t \in TaskIds : login_post(t)
    \/ \E t \in TaskIds : login_setItem(t)
    \/ \E t \in TaskIds : login_getUser(t)
    \/ logout
    \/ \E t \in TaskIds : logout_post(t)
    \/ \E t \in TaskIds : logout_finally(t)
    \/ Quiet /\ NotificationChannelMount
    \/ \E t \in TaskIds : initializeNotificationChannel_getPermissions(t)
    \/ \E t \in TaskIds : initializeNotificationChannel_getItem(t)
    \/ Quiet /\ registerDevice
    \/ \E t \in TaskIds : registerDevice_requestPermission(t)
    \/ \E t \in TaskIds : registerDevice_getExpoPushToken(t)
    \/ \E t \in TaskIds : registerDevice_post(t)
    \/ \E t \in TaskIds : registerDevice_setItemRegistration(t)
    \/ \E t \in TaskIds : registerDevice_setItemDeviceId(t)
    \/ \E t \in TaskIds : registerDevice_setItemDeviceSecret(t)
    \/ \E expoPushToken \in PushTokens : Quiet /\ sendTokenToServer(expoPushToken)
    \/ \E t \in TaskIds : sendTokenToServer_getItem(t)
    \/ \E t \in TaskIds : sendTokenToServer_post(t)
    \/ Quiet /\ sendHeartbeat
    \/ \E t \in TaskIds : getDeviceCredentials_deviceId(t)
    \/ \E t \in TaskIds : sendHeartbeat_getDeviceSecret(t)
    \/ \E t \in TaskIds : sendHeartbeat_post(t)
    \/ Quiet /\ getDeviceFilteredEscalations
    \/ \E t \in TaskIds : getDeviceFilteredEscalations_getDeviceSecret(t)
    \/ \E t \in TaskIds : getDeviceFilteredEscalations_get(t)
    \/ clearDeviceRegistration

SpecPreconditions == ServiceInit /\ [][PreconditionsNext]_vars

\* the feed of a registered device shows the list its first request was answered with
FeedShown ==
    /\ storage = [EmptyStorage EXCEPT
                    !["authToken"] = "token-1",
                    !["deviceRegistration"] = JSONstringify(FirstRegistration),
                    !["deviceId"] = HwDeviceId,
                    !["deviceSecret"] = FirstRegistration.deviceSecret]
    /\ axiosAuth = "token-1"
    /\ auth = [user |-> UserData, loading |-> FALSE]
    /\ server = [session |-> TRUE, device |-> FirstRegistration, issued |-> 1]
    /\ channel = InitialChannel
    /\ feed = [feedbacks |-> "[e1]", loading |-> FALSE, refreshing |-> FALSE,
               deviceRegistered |-> TRUE, subscriptionSeverity |-> "medium",
               mounted |-> TRUE]
    /\ lists = InitialLists
    /\ tasks = [t \in TaskIds |-> IdleTask]
    /\ last = [NoOutcome EXCEPT !.op = "fetchDeviceFilteredEscalations",
                                !.result = "[e1]", !.net = 1, !.established = TRUE]

DisplayNext ==
    \/ renderFeedbackItem
    \/ FeedbackDetail

\* the cards of the feed and the detail screen, for the escalations of Items
SpecDisplay == FeedShown /\ [][DisplayNext]_vars

UpdatesNext ==
    \/ NotificationChannelMount
    \/ \E t \in TaskIds : initializeNotificationChannel_getPermissions(t)
    \/ \E t \in TaskIds : initializeNotificationChannel_getItem(t)
    \/ \E newSeverity \in Severities : updateSubscription(newSeverity)
    \/ \E t \in TaskIds : updateSubscription_getDeviceId(t)
    \/ \E t \in TaskIds : updateSubscription_getDeviceSecret(t)
    \/ \E t \in TaskIds : updateSubscription_patch(t)
    \/ \E t \in TaskIds : updateSubscription_setItem(t)
    \/ \E newSeverity \in Severities : updateSubscriptionSeverity(newSeverity)
    \/ \E t \in TaskIds : getDeviceCredentials_deviceId(t)
    \/ \E t \in TaskIds : updateSubscriptionSeverity_getDeviceSecret(t)
    \/ \E t \in TaskIds : updateSubscriptionSeverity_patch(t)
    \/ \E t \in TaskIds : updateSubscriptionSeverity_getDeviceRegistration(t)
    \/ \E t \in TaskIds : updateSubscriptionSeverity_setItem(t)

\* severity updates of a registered device, from the screen and through
\* DeviceService, that may overlap
SpecUpdates == Registered /\ [][UpdatesNext]_vars

ColorsNext ==
    \/ RatingShown
    \/ FeedbackScreen_rating
    \/ FeedbackDetailScreen_rating
    \/ GuestHistoryScreen_rating
    \/ DashboardScreen_rating
    \/ EscalationsScreen_rating

\* one rating after another, colored by the screens in any order
SpecColors == LoggedIn /\ [][ColorsNext]_vars

----------------------------------------------------------------------------
(* Registration *)

DeviceKeys == {"deviceRegistration", "deviceId", "deviceSecret"}

\* the step with which invocation t of op returns
Returns(t, op) == tasks[t].op = op /\ tasks'[t].op = "idle"

\* C1: registerDevice never leaves a partial registration: when a run of it ends,
\* failed request or failed storage write included, the three device keys either
\* all hold the new registration or none differs from what it held when the run
\* began.
C1_RegistrationAllOrNothing ==
    [][\A t \in TaskIds :
         Returns(t, "registerDevice") =>
           \/ \A k \in DeviceKeys : storage'[k] = tasks[t].pre[k]
           \/ /\ storage'["deviceRegistration"] = JSONstringify(tasks[t].reg)
              /\ storage'["deviceId"] = tasks[t].creds.deviceId
              /\ storage'["deviceSecret"] = tasks[t].reg.deviceSecret]_vars

\* C2 as stated: on a successful registerDevice the identifier and the secret that
\* getDeviceCredentials reads are the id and the deviceSecret of the response.
C2_StoresReturnedIdAndSecret ==
    [][\A t \in TaskIds :
         (Returns(t, "registerDevice") /\ last'.result = "success") =>
           getDeviceCredentials(storage'["deviceId"], storage'["deviceSecret"])
             = [deviceId |-> tasks[t].reg.id,
                deviceSecret |-> tasks[t].reg.deviceSecret]]_vars

\* C2 amended: on a successful registerDevice the secret that getDeviceCredentials
\* reads is the deviceSecret of the response and the identifier is the hardware
\* id the request was sent with (the id of the response is kept only inside the
\* 'deviceRegistration' item); both replace whatever was stored before.
C2_StoresHardwareIdAndReturnedSecret ==
    [][\A t \in TaskIds :
         (Returns(t, "registerDevice") /\ last'.result = "success") =>
           getDeviceCredentials(storage'["deviceId"], storage'["deviceSecret"])
             = [deviceId |-> HwDeviceId,
                deviceSecret |-> tasks[t].reg.deviceSecret]]_vars

\* a second registration has succeeded with an id that is not the hardware id,
\* over the credentials of the first
C2_SecondRegistrationStored ==
    /\ last.op = "registerDevice"
    /\ last.result = "success"
    /\ last.reg.id # HwDeviceId
    /\ last.reg.deviceSecret = SecretNames[2]
    /\ storage["deviceId"] = HwDeviceId
    /\ storage["deviceSecret"] = SecretNames[2]

\* getDeviceFilteredEscalations was called right after a registerDevice that
\* succeeded and is the one the backend answered last: nothing else has finished
\* or is in flight, and storage is as it was when the call was made
FetchRightAfterRegistration(t) ==
    /\ tasks[t].op = "getDeviceFilteredEscalations"
    /\ InFlight = {t}
    /\ last.op = "registerDevice"
    /\ last.result = "success"
    /\ server.device.deviceSecret = last.reg.deviceSecret
    /\ tasks[t].pre = storage

----------------------------------------------------------------------------
(* Severity updates *)

\* C3: updateSubscriptionSeverity whose reads find the device identifier or the
\* device secret absent from storage returns the "Device not registered" failure
\* (false) and has issued no network request; the backend is not touched.
C3_NotRegisteredFailsWithoutRequest ==
    [][\A t \in TaskIds :
         (At(t, "updateSubscriptionSeverity", "getDeviceSecret")
            /\ tasks'[t] # tasks[t]
            /\ (tasks[t].creds.deviceId = NULL \/ storage["deviceSecret"] = NULL)) =>
           /\ tasks'[t].op = "idle"
           /\ last'.op = "updateSubscriptionSeverity"
           /\ last'.result = "false"
           /\ last'.error = "Device not registered"
           /\ last'.net = 0
           /\ server' = server]_vars

\* the call has returned that failure on a device without credentials
C3_NotRegisteredReturned ==
    /\ last.op = "updateSubscriptionSeverity"
    /\ last.result = "false"
    /\ last.error = "Device not registered"
    /\ last.net = 0
    /\ getDeviceCredentials(storage["deviceId"], storage["deviceSecret"]) = NoCredentials

----------------------------------------------------------------------------
(* Fetching *)

\* the response of a feed request is delivered in this step
FeedResponse(t) ==
    /\ At(t, "fetchDeviceFilteredEscalations", "get")
    /\ Returns(t, "fetchDeviceFilteredEscalations")
    /\ last'.error = NULL

\* C4: refreshes of the feed are issued whatever is in flight and nothing cancels
\* them: a response that arrives puts its payload on display and leaves every other
\* request in flight as it is, and the list changes in no other way, so after two
\* overlapping refreshes the list is the payload of the response that came last.
C4_LastResponseWins ==
    [][/\ \A t \in TaskIds :
            FeedResponse(t) =>
              /\ feed'.feedbacks = last'.result
              /\ \A u \in TaskIds \ {t} : tasks'[u] = tasks[u]
       /\ feed'.feedbacks # feed.feedbacks =>
            \E t \in TaskIds : Returns(t, "fetchDeviceFilteredEscalations")
                                  /\ last'.error = NULL]_vars

\* a second refresh is still in flight while the response to another one, a
\* different list than the one shown before, is on display
C4_ResponseShownWhileOtherInFlight ==
    /\ last.op = "fetchDeviceFilteredEscalations"
    /\ last.net = 1
    /\ last.result = "[e1,e2]"
    /\ feed.feedbacks = "[e1,e2]"
    /\ feed.refreshing = FALSE
    /\ \E t \in TaskIds : At(t, "fetchDeviceFilteredEscalations", "get")

\* what the screens display
Displayed ==
    <<feed.feedbacks, lists.guests.data, lists.escalations.data,
      lists.dashboard.restaurant, lists.dashboard.stats, lists.settings.restaurant>>

\* an invocation returns in this step and a request of it had failed
RequestFailed ==
    /\ \E t \in TaskIds : tasks[t].net > 0 /\ tasks'[t].op = "idle"
    /\ last'.error = "request"

\* C5: a fetch request that fails leaves what the screens display untouched: the
\* data shown after it equals the data shown before.
C5_FailedFetchKeepsDisplay ==
    [][RequestFailed => Displayed' = Displayed]_vars

\* C6: every failure of a request is reported to the user through a blocking
\* alert; none is swallowed silently.
C6_EveryFailureAlerts ==
    [][RequestFailed => last'.alert # NULL]_vars

----------------------------------------------------------------------------
(* Registration lifetime *)

\* C8: once isDeviceRegistered holds it keeps holding through logout and login,
\* severity updates, heartbeats, fetches and refreshes of the feed; the only step
\* that takes a registered device back to unregistered is clearDeviceRegistration.
C8_UnregisteredOnlyByClearing ==
    [][(isDeviceRegistered(storage) /\ ~isDeviceRegistered(storage'))
         => clearDeviceRegistration]_vars

\* the device is still registered, with the severity an update gave it, after a
\* logout and a new login
C8_RegisteredAcrossLogin ==
    /\ isDeviceRegistered(storage)
    /\ getSubscriptionSeverity(storage) = "low"
    /\ last.op = "login"
    /\ last.result = "true"
    /\ auth.user # NULL

----------------------------------------------------------------------------
(* Session lifetime *)

\* C7: a session established by a successful login is invalidated (its token
\* leaves storage) only by an explicit logout or by the backend rejecting the
\* token; in particular not by a transport failure of the startup verification.
C7_SessionEndsOnlyByLogoutOrRejection ==
    [][(last.established /\ storage["authToken"] # NULL /\ storage'["authToken"] = NULL)
         => \E t \in TaskIds :
              \/ At(t, "logout", "finally")
              \/ At(t, "checkAuthStatus", "catch") /\ tasks[t].resp = "rejected"]_vars

----------------------------------------------------------------------------
(* Failure of the feed request *)

\* C11: a network request of getDeviceFilteredEscalations that fails reaches the
\* caller as a thrown error and not as an empty list: the list on display stays
\* as it was, and FeedbackScreen raises the alert that asks the user to check
\* the device registration.
C11_FailedFetchThrowsAndPrompts ==
    [][\A t \in TaskIds :
         (/\ At(t, "fetchDeviceFilteredEscalations", "get")
          /\ Returns(t, "fetchDeviceFilteredEscalations")
          /\ last'.error = "request")
         => /\ last'.result = "throws"
            /\ last'.alert = "Error"
            /\ feed'.feedbacks = feed.feedbacks]_vars

\* a refresh has failed while a non-empty list was on display: the alert is up
\* and the list is still shown
C11_RefreshFailedListKept ==
    /\ last.op = "fetchDeviceFilteredEscalations"
    /\ last.net = 1
    /\ last.error = "request"
    /\ last.alert = "Error"
    /\ feed.feedbacks = "[e1,e2]"
    /\ ~feed.refreshing

----------------------------------------------------------------------------
(* Loading and refreshing indicators *)

\* C12: the loading / refreshing indicator of the feed is on for the whole
\* duration of the screen's own requests: while at least one request of
\* FeedbackScreen is in flight, loading or refreshing is true.
C12_IndicatorOnWhileRequestInFlight ==
    (\E t \in TaskIds : At(t, "fetchDeviceFilteredEscalations", "get"))
        => (feed.loading \/ feed.refreshing)

----------------------------------------------------------------------------
(* No automatic retry *)

\* a user or mount event: the steps that start an invocation
Trigger == registerDevice \/ NotificationChannelMount \/ getDeviceFilteredEscalations

\* C13: nothing is retried and nothing re-registers by itself.  An invocation
\* is started only by a triggering event (mount, button press, call), it sends
\* at most one request to its endpoint, and the step in which an invocation
\* fails sends no request and starts nothing: after a failure the next request
\* needs a new triggering event.
C13_NoAutomaticRetry ==
    [][/\ \A t \in TaskIds :
            /\ tasks'[t].net <= 1
            /\ tasks'[t].net > tasks[t].net =>
                  tasks[t].net = 0 /\ tasks[t].op # "idle"
            /\ (Free(t) /\ ~Free(t)') => Trigger
       /\ (\E t \in TaskIds : ~Free(t) /\ Free(t)' /\ last'.error # NULL) =>
            \A u \in TaskIds : Free(u)' \/ tasks'[u] = tasks[u]]_vars

\* the registration request has failed, the alert is up, and nothing is in
\* flight: no request follows by itself
C13_RegistrationFailedNothingInFlight ==
    /\ last.op = "registerDevice"
    /\ last.error = "request"
    /\ last.net = 1
    /\ last.alert = "Registration Failed"
    /\ InFlight = {}
    /\ server.issued = 0

----------------------------------------------------------------------------
(* Local preconditions *)

\* invocation t takes the step in which it learns that no device credentials
\* are stored
NoStoredCredentials(t) ==
    /\ tasks[t].pc = "getDeviceSecret"
    /\ tasks'[t].pc # tasks[t].pc
    /\ getDeviceCredentials(tasks[t].creds.deviceId, getItem("deviceSecret"))
         = NoCredentials

\* invocation t returns in this step without having sent a request, and no other
\* invocation sends one
ReturnsWithoutRequest(t) ==
    /\ Free(t)'
    /\ last'.op = tasks[t].op
    /\ last'.net = 0
    /\ \A u \in TaskIds : tasks'[u].net <= tasks[u].net

\* C14: a local precondition that fails is found before any request goes out:
\* sendHeartbeat and getDeviceFilteredEscalations without stored credentials,
\* sendTokenToServer without a push token or without a stored auth token, and
\* registerDevice without a user all return having sent nothing.  (The navigator
\* shows the registration screen only with a user, so the last guard is one the
\* interface never reaches.)
C14_PreconditionFailuresSendNothing ==
    [][/\ \A t \in TaskIds :
            /\ (tasks[t].op = "sendHeartbeat" /\ NoStoredCredentials(t))
                 => ReturnsWithoutRequest(t) /\ last'.result = "false"
            /\ (tasks[t].op = "getDeviceFilteredEscalations" /\ NoStoredCredentials(t))
                 => ReturnsWithoutRequest(t) /\ last'.result = "[]"
            /\ (/\ At(t, "sendTokenToServer", "getItem")
                /\ tasks'[t].pc # tasks[t].pc
                /\ getItem("authToken") = NULL)
                 => ReturnsWithoutRequest(t)
       /\ sendTokenToServer("") => UNCHANGED tasks /\ last'.net = 0
       /\ (registerDevice /\ auth.user = NULL) => UNCHANGED tasks /\ last'.net = 0]_vars

\* after a logout a heartbeat is asked for on a device whose registration has
\* been cleared: it returns false and nothing was sent
C14_HeartbeatWithoutCredentials ==
    /\ last.op = "sendHeartbeat"
    /\ last.result = "false"
    /\ last.error = "no credentials"
    /\ last.net = 0
    /\ storage["authToken"] = NULL
    /\ server.device # NoRegistration
    /\ InFlight = {}

----------------------------------------------------------------------------
(* Credentials of the severity update *)

\* C15: the request that changes the severity is authenticated by the device
\* secret and not by the session: when it goes out it carries the device secret
\* held in local storage and it carries no session bearer token.
C15_UpdateCarriesSecretNotBearer ==
    [][\A t \in TaskIds :
         (/\ tasks[t].op = "updateSubscriptionSeverity"
          /\ tasks[t].pc # "patch"
          /\ tasks'[t].pc = "patch")
         => /\ tasks'[t].creds.deviceSecret = storage["deviceSecret"]
            /\ tasks'[t].creds.deviceSecret # NULL
            /\ tasks'[t].bearer = NULL]_vars

----------------------------------------------------------------------------
(* Ratings and comments of an escalation *)

\* a card or the detail screen has been rendered; Item is the escalation shown
Rendered == last.op \in {"renderFeedbackItem", "FeedbackDetail"}
Item == last.result.item

HasPrimaryRating == Item.primaryRating.type = "number" /\ Item.primaryRating.n > 0

\* the values of the ratings mapping that are numbers greater than 0
PositiveRatings ==
    SelectSeq(Item.ratings.entries, LAMBDA e : e.value.type = "number" /\ e.value.n > 0)

RECURSIVE Total(_)
Total(entries) ==
    IF entries = <<>> THEN 0 ELSE Head(entries).value.n + Total(Tail(entries))

\* the largest average there is, in tenths
MaxTenths == 50

\* text is the quotient num / den (in hundredths) rounded to one decimal place:
\* the decimal with one digit after the point from which the quotient is at most
\* half a tenth away
IsRounded(text, num, den) ==
    \E t \in 0..MaxTenths :
        /\ text = ToString(t \div 10) \o "." \o ToString(t % 10)
        /\ 2 * (num - 10 * den * t) <= 10 * den
        /\ 2 * (10 * den * t - num) <= 10 * den

\* C16: the primary rating has precedence: when it is present and greater than
\* 0 the average shown is the primary rating rounded to one decimal, whatever
\* the ratings mapping holds.
C16_PrimaryRatingHasPrecedence ==
    (Rendered /\ HasPrimaryRating)
        => IsRounded(last.result.averageRating, Item.primaryRating.n, 1)

\* primaryRating 4.5 with ratings {food: 2}: 4.5 is shown, not 2.0
C16_PrimaryShownDespiteRatings ==
    /\ last.op = "renderFeedbackItem"
    /\ Item.primaryRating = Num(450)
    /\ Len(Item.ratings.entries) = 1
    /\ Item.ratings.entries[1].value = Num(200)
    /\ last.result.averageRating = "4.5"

\* C17: without a primary rating greater than 0, and with at least one value of
\* the ratings mapping that is a number greater than 0, the average shown is the
\* arithmetic mean of exactly those values, rounded to one decimal; zero,
\* negative and non-numeric values count neither in the sum nor in the number.
C17_MeanOfPositiveRatings ==
    (Rendered /\ ~HasPrimaryRating /\ Len(PositiveRatings) > 0)
        => IsRounded(last.result.averageRating, Total(PositiveRatings),
                     Len(PositiveRatings))

\* ratings {food: 4, staff: '5', a: 4.5} without a primary rating: 4.2 or 4.3,
\* the mean 4.25 of 4 and 4.5
C17_MeanSkipsNonNumeric ==
    /\ last.op = "renderFeedbackItem"
    /\ Item.primaryRating = Undefined
    /\ Len(Item.ratings.entries) = 3
    /\ Item.ratings.entries[1].value = Num(400)
    /\ Item.ratings.entries[2].value = Str(<<"5">>)
    /\ Item.ratings.entries[3].value = Num(450)
    /\ last.result.averageRating \in {"4.2", "4.3"}

\* C18: with no primary rating and no value of the ratings mapping that is a
\* number greater than 0 (no mapping, an empty one, or only values that are not
\* positive or not numbers) the average shown is exactly "0.0".
C18_NoRatingsGiveZero ==
    (Rendered /\ Item.primaryRating = Undefined /\ Len(PositiveRatings) = 0)
        => last.result.averageRating = "0.0"

\* ratings {food: 0, staff: -1, a: '5'} without a primary rating: 0.0
C18_OnlyUnusableRatings ==
    /\ last.op = "renderFeedbackItem"
    /\ Item.primaryRating = Undefined
    /\ Len(Item.ratings.entries) = 3
    /\ Item.ratings.entries[1].value = Num(0)
    /\ Item.ratings.entries[2].value = Num(-100)
    /\ Item.ratings.entries[3].value = Str(<<"5">>)
    /\ last.result.averageRating = "0.0"

\* entry shows property e of the ratings mapping: its key, the key with the first
\* character in upper case as label, and the value as it is
ShowsRating(entry, e) ==
    /\ entry.key = e.key
    /\ entry.value = e.value.n
    /\ Len(entry.label) = Len(e.key)
    /\ \A i \in 1..Len(e.key) :
         entry.label[i] = IF i = 1 THEN toUpperCase(e.key[1]) ELSE e.key[i]

\* C19: the card lists at most 5 ratings: the first 5 (or fewer) properties of
\* the ratings mapping whose value is a number greater than 0, in the order in
\* which the mapping was written, nothing sorted.
C19_FirstFiveInInsertionOrder ==
    last.op = "renderFeedbackItem" =>
        LET shown == last.result.availableRatings
            expected == IF Len(PositiveRatings) < MaxDisplayed
                        THEN Len(PositiveRatings) ELSE MaxDisplayed
        IN /\ Len(shown) <= MaxDisplayed
           /\ Len(shown) = expected
           /\ \A i \in 1..expected : ShowsRating(shown[i], PositiveRatings[i])

\* a primary comment holds a character that is not white space
NonEmptyTrimmed(comment) ==
    /\ comment.type = "string"
    /\ \E i \in 1..Len(comment.s) : comment.s[i] # " "

\* C20: a primary comment that is present and not empty after trimming white
\* space is the comment shown, unchanged (not trimmed), whatever the comments
\* mapping holds.
C20_PrimaryCommentUnchanged ==
    (last.op = "renderFeedbackItem" /\ NonEmptyTrimmed(Item.primaryComment))
        => last.result.allComments = Item.primaryComment

\* primaryComment ' a' with comments {food: 'b'}: ' a' is shown
C20_UntrimmedPrimaryShown ==
    /\ last.op = "renderFeedbackItem"
    /\ Item.primaryComment = Str(<<" ", "a">>)
    /\ Len(Item.comments.entries) = 1
    /\ Item.comments.entries[1].value = Str(<<"b">>)
    /\ last.result.allComments = Str(<<" ", "a">>)

\* the primary comment is absent, empty or white space only
NoPrimaryComment ==
    \/ Item.primaryComment.type \in {"undefined", "null"}
    \/ /\ Item.primaryComment.type = "string"
       /\ \A i \in 1..Len(Item.primaryComment.s) : Item.primaryComment.s[i] = " "

\* the values of the comments mapping, in the order the mapping is iterated in,
\* that are strings with a character that is not white space
NamedComments ==
    IF Item.comments.type = "object"
    THEN SelectSeq(ObjectEntries(Item.comments), LAMBDA e : NonEmptyTrimmed(e.value))
    ELSE <<>>

\* text is the values of entries from position i on, with " | " between them
RECURSIVE IsJoined(_, _, _)
IsJoined(text, entries, i) ==
    LET value == entries[i].value.s
    IN IF i = Len(entries)
       THEN text = value
       ELSE /\ Len(text) >= Len(value) + 3
            /\ SubSeq(text, 1, Len(value)) = value
            /\ SubSeq(text, Len(value) + 1, Len(value) + 3) = <<" ", "|", " ">>
            /\ IsJoined(SubSeq(text, Len(value) + 4, Len(text)), entries, i + 1)

\* C21: when the primary comment is absent or blank, the comment shown is the
\* string values of the comments mapping that are not empty after trimming, as
\* they are, in iteration order, joined with " | "; without such a value no
\* comment is shown (null).
C21_NamedCommentsJoined ==
    (last.op = "renderFeedbackItem" /\ NoPrimaryComment)
        => IF Len(NamedComments) = 0
           THEN last.result.allComments = JSNull
           ELSE /\ last.result.allComments.type = "string"
                /\ IsJoined(last.result.allComments.s, NamedComments, 1)

\* primaryComment ' ' with comments {food: 'b', staff: 'c '}: 'b | c ' is shown
C21_TwoCommentsJoined ==
    /\ last.op = "renderFeedbackItem"
    /\ Item.primaryComment = Str(<<" ">>)
    /\ Len(Item.comments.entries) = 2
    /\ Item.comments.entries[1] = [key |-> <<"f", "o", "o", "d">>, value |-> Str(<<"b">>)]
    /\ Item.comments.entries[2].value = Str(<<"c", " ">>)
    /\ Item.comments.entries[2].key = <<"s", "t", "a", "f", "f">>
    /\ last.result.allComments = Str(<<"b", " ", "|", " ", "c", " ">>)

----------------------------------------------------------------------------
(* Severity banner *)

\* the presentations of the three tiers: background, icon, color of the icon, color
\* of the text; 'low' has the neutral presentation that is also the default
TierPresentation ==
    [high |-> [backgroundColor |-> "#FEF2F2", name |-> "alert-circle",
               color |-> "#EF4444", textColor |-> "#EF4444"],
     medium |-> [backgroundColor |-> "#FFFBEB", name |-> "warning",
                 color |-> "#F59E0B", textColor |-> "#F59E0B"],
     low |-> [backgroundColor |-> "#EBF4FF", name |-> "information-circle",
              color |-> "#3B82F6", textColor |-> "#3B82F6"]]

LiteralTier(severity) ==
    CASE severity = Str(<<"h", "i", "g", "h">>) -> "high"
      [] severity = Str(<<"m", "e", "d", "i", "u", "m">>) -> "medium"
      [] severity = Str(<<"l", "o", "w">>) -> "low"
      [] OTHER -> "none"

\* C22: the banner of an escalated item is defined for every severity, the three
\* literal tiers, any other string and an absent value alike.  Its components
\* always come from one and the same tier: from the tier named by the severity,
\* and from the neutral default for every value that is none of the three.
C22_SeverityPresentationTotal ==
    (Rendered /\ Item.isEscalated)
        => /\ \E tier \in DOMAIN TierPresentation :
                 last.result.banner = TierPresentation[tier]
           /\ LiteralTier(Item.severity) # "none"
                 => last.result.banner = TierPresentation[LiteralTier(Item.severity)]
           /\ LiteralTier(Item.severity) = "none"
                 => last.result.banner = TierPresentation["low"]

\* an escalation of severity 'critical' is shown with the neutral presentation
C22_CriticalShownAsDefault ==
    /\ last.op = "renderFeedbackItem"
    /\ Item.isEscalated
    /\ Item.severity = Str(<<"c", "r", "i", "t", "i", "c", "a", "l">>)
    /\ last.result.banner.name = "information-circle"
    /\ last.result.banner.backgroundColor = "#EBF4FF"

----------------------------------------------------------------------------
(* Failure semantics of the aggregations; the comment of the detail screen *)

\* C24: getAverageRating, getAvailableRatings and getAllComments never throw:
\* whatever the ratings and comments mappings and the primary fields hold, a
\* card or a detail screen that is rendered gets a value from each of them.
C24_AggregationsNeverThrow ==
    Rendered =>
        /\ last.error = NULL
        /\ last.result.averageRating # TypeError
        /\ last.result.allComments.type # TypeError

\* C30: the detail screen opened from a card shows a comment exactly when the
\* card shows one, and the same text.
C30_DetailShowsCommentOfCard ==
    [][(last.op = "renderFeedbackItem" /\ last'.op = "FeedbackDetail")
          => last'.result.allComments = last.result.allComments]_vars

----------------------------------------------------------------------------
(* Rating colors *)

\* the tier a color stands for, in the palette of the feed and in the palette of
\* the escalations list
Tier(color) ==
    CASE color \in {"#10B981", "#00F5D4"} -> "good"
      [] color \in {"#F59E0B", "#FEE440"} -> "warning"
      [] color \in {"#EF4444", "#FF006E"} -> "critical"

RatingColored(screen) == last.op = "rating" /\ last.result.color[screen] # NULL

\* C23: on the feed and on the detail screen a rating of 4 or more is good, a
\* rating from 3 up to but not including 4 is warning, a rating below 3 is
\* critical; 4.0 is good, 3.0 is warning, 2.99 is critical.
C23_RatingTiers ==
    \A screen \in {"FeedbackScreen", "FeedbackDetailScreen"} :
        RatingColored(screen) =>
            Tier(last.result.color[screen]) =
                IF last.result.rating >= 400 THEN "good"
                ELSE IF last.result.rating >= 300 THEN "warning"
                ELSE "critical"

\* the rating 4.0 is shown in the good color on the feed
C23_FourIsGood ==
    /\ RatingColored("FeedbackScreen")
    /\ last.result.rating = 400
    /\ Tier(last.result.color["FeedbackScreen"]) = "good"

\* C29: the screens that have colored a rating have put it in the same tier.
C29_SameTierOnEveryScreen ==
    \A a, b \in ColorScreens :
        (RatingColored(a) /\ RatingColored(b))
            => Tier(last.result.color[a]) = Tier(last.result.color[b])

----------------------------------------------------------------------------
(* Logout and the session facts *)

\* the step with which a logout returns (its promise is fulfilled)
LogoutReturns ==
    /\ \E t \in TaskIds : At(t, "logout", "finally")
    /\ last'.op = "logout"
    /\ last'.result = "ok"

\* C25: when a logout has completed, deviceId, deviceSecret and
\* deviceRegistration are absent from storage: the device is unregistered for
\* whoever logs in next.
C25_LogoutClearsDeviceCredentials ==
    [][LogoutReturns
         => /\ \A k \in DeviceKeys : storage'[k] = EmptyStorage[k]
            /\ ~isDeviceRegistered(storage')]_vars

\* no login, logout or startup check is in progress
NoSessionOperation ==
    \A t \in TaskIds : tasks[t].op \notin {"login", "logout", "checkAuthStatus"}

\* C27: whenever no login, logout or startup check is in progress, a token is in
\* storage exactly when the default Authorization header is set, and exactly
\* when a user is set; a login that returned false has left neither token nor
\* header.
C27_SessionFactsAgree ==
    NoSessionOperation
        => /\ (storage["authToken"] # NULL) <=> (axiosAuth # NULL)
           /\ (axiosAuth # NULL) <=> (auth.user # NULL)
           /\ (last.op = "login" /\ last.result = "false")
                 => (storage["authToken"] = NULL /\ axiosAuth = NULL)

\* C28: when logout returns, the token has left storage, the default
\* Authorization header is deleted, user is null and the login screen is shown,
\* whether the logout request was answered or failed.
C28_LogoutEndsLocalSession ==
    [][LogoutReturns
         => /\ storage'["authToken"] = NULL
            /\ axiosAuth' = NULL
            /\ auth'.user = NULL
            /\ LoginScreenShown']_vars

\* logout has returned after its request failed: the backend still holds the
\* session, the client holds nothing of it
C28_LoggedOutAfterFailedRequest ==
    /\ last.op = "logout"
    /\ last.result = "ok"
    /\ server.session
    /\ storage["authToken"] = NULL
    /\ axiosAuth = NULL
    /\ auth.user = NULL

----------------------------------------------------------------------------
(* The cached severity and the severity of the backend *)

\* C26: when every severity update that was started has settled, the severity
\* cached in deviceRegistration is the severity the backend applied last, also
\* when updates overlapped and every one of them succeeded.
C26_CacheEqualsServerWhenSettled ==
    (Quiet /\ last.op \in {"updateSubscription", "updateSubscriptionSeverity"}
           /\ last.error = NULL)
        => getSubscriptionSeverity(storage) = server.device.subscriptionSeverity

====
